---- MODULE Spec2Model ----
(***************************************************************************)
(* Model of the grid-completion engine (BingoCard / BingoCell / User) and  *)
(* of the prize-draw evaluation engine (PrizeDrawEngine, workflows) of     *)
(* nict-badge-wallet-sys.                                                  *)
(*                                                                         *)
(* A definition (nfts.id) is a number of Defs, a user a number of Users.   *)
(* An ownership (UserNFTOwnership, alias NFTInstance) is a row             *)
(* [id, user_id, nft_id, nft_origin]; uq_user_nft makes (user_id, nft_id)  *)
(* a key, and the autoincrement id is represented by the index of that key.*)
(* Timestamps are readings of the logical clock `now`.                     *)
(***************************************************************************)
EXTENDS Integers, Sequences, FiniteSets, TLC

VARIABLES ownerships, cards, winningNumbers, results, now, lastCall, sessions,
          registry

vars == <<ownerships, cards, winningNumbers, results, now, lastCall, sessions,
          registry>>

\* No database session of a concurrent evaluator is open.
NoSessions == <<>>

\* AlgorithmRegistry.__init__: no algorithm is registered; calls is the record
\* of the register calls made on the registry so far.
EmptyRegistry == [algorithms |-> <<>>, calls |-> <<>>]

\* Python's None / SQL NULL in an integer-valued column.
NULL == -1

\* ---------------------------------------------------------------- bounds
NumUsers == 2
NumDefs == 10
MaxCards == 1
MaxGridTime == 4
MaxDrawTime == 3
MaxWinningNumbers == 2
MaxStrLen == 2
MaxRankRows == 3
NumEvaluators == 2
MaxBatch == 2
MaxBatchTime == 2
MaxOriginLen == 3

\* Cards in the ensure scenario, and its clock.
MaxEnsureCards == 3

MaxEnsureTime == 4

\* The clock of the bingo draw scenario.
MaxBingoDrawTime == 4

\* Register calls made on one AlgorithmRegistry.
MaxRegisterCalls == 3

Users == 1..NumUsers
Defs == 1..NumDefs

\* ------------------------------------------------------- generic helpers
Range(s) == {s[i] : i \in 1..Len(s)}

RECURSIVE SetToSeq(_)
SetToSeq(S) ==
    IF S = {} THEN <<>>
    ELSE LET m == CHOOSE x \in S : \A y \in S : x <= y
         IN <<m>> \o SetToSeq(S \ {m})

\* The autoincrement primary key of the ownership row of (user, definition).
OwnershipId(u, d) == (u - 1) * NumDefs + d

\* ------------------------------------------------------------ draw number
\* A string is a sequence of characters over a small alphabet; NoneStr is
\* Python's None in a string-valued column.
NoneStr == <<"None">>

Whitespace == {" "}

LowerChar(c) ==
    CASE c = "A" -> "a"
      [] c = "B" -> "b"
      [] OTHER -> c

LowerStr(s) == [i \in 1..Len(s) |-> LowerChar(s[i])]

RECURSIVE LStrip(_)
LStrip(s) ==
    IF s # <<>> /\ Head(s) \in Whitespace THEN LStrip(Tail(s)) ELSE s

RECURSIVE RStrip(_)
RStrip(s) ==
    IF s # <<>> /\ s[Len(s)] \in Whitespace
    THEN RStrip(SubSeq(s, 1, Len(s) - 1)) ELSE s

Strip(s) == RStrip(LStrip(s))

\* An origin that is not a str (the test passes the integer 123).
NotAString == <<"int">>

\* _normalize_origin without the check of the stripped value.
NormalizeOriginAcceptingBlank(origin) ==
    IF origin = NoneStr THEN [ok |-> FALSE, value |-> <<>>, error |-> "ValueError"]
    ELSE IF origin = NotAString
    THEN [ok |-> FALSE, value |-> <<>>, error |-> "TypeError"]
    ELSE [ok |-> TRUE, value |-> LowerStr(Strip(origin)), error |-> "none"]

\* _normalize_origin without .lower().
NormalizeOriginKeepingCase(origin) ==
    IF origin = NoneStr THEN [ok |-> FALSE, value |-> <<>>, error |-> "ValueError"]
    ELSE IF origin = NotAString
    THEN [ok |-> FALSE, value |-> <<>>, error |-> "TypeError"]
    ELSE IF Strip(origin) = <<>>
    THEN [ok |-> FALSE, value |-> <<>>, error |-> "ValueError"]
    ELSE [ok |-> TRUE, value |-> Strip(origin), error |-> "none"]

\* _normalize_origin raising ValueError for whatever it rejects.
NormalizeOriginOnlyValueError(origin) ==
    IF origin \in {NoneStr, NotAString}
    THEN [ok |-> FALSE, value |-> <<>>, error |-> "ValueError"]
    ELSE IF Strip(origin) = <<>>
    THEN [ok |-> FALSE, value |-> <<>>, error |-> "ValueError"]
    ELSE [ok |-> TRUE, value |-> LowerStr(Strip(origin)), error |-> "none"]

\* _normalize_origin: ok is FALSE when it raises, error names the exception.
NormalizeOrigin(origin) ==
    IF origin = NoneStr THEN [ok |-> FALSE, value |-> <<>>, error |-> "ValueError"]
    ELSE IF origin = NotAString
    THEN [ok |-> FALSE, value |-> <<>>, error |-> "TypeError"]
    ELSE LET normalized == LowerStr(Strip(origin))
         IN IF normalized = <<>>
            THEN [ok |-> FALSE, value |-> <<>>, error |-> "ValueError"]
            ELSE [ok |-> TRUE, value |-> normalized, error |-> "none"]

derive_draw_number(origin) == NormalizeOrigin(origin)

\* ---------------------------------------------------------------- scoring
\* Character codes of the alphabet (the ASCII encoding of the payload).
Code(c) ==
    CASE c = "a" -> 1
      [] c = "b" -> 2
      [] c = " " -> 3
      [] c = "A" -> 4
      [] c = "B" -> 5
      [] OTHER -> 6

\* Width of the digest in bits (SHA-256 has 256; the model keeps 8).
DigestBits == 8

RECURSIVE DigestFrom(_, _)
DigestFrom(h, s) ==
    IF s = <<>> THEN h
    ELSE DigestFrom((h * 31 + Code(Head(s))) % (2 ^ DigestBits), Tail(s))

\* _sha256_hexdigest read as an integer: a fixed function of the payload.
Sha256Int(s) == DigestFrom(7, s)

\* Scores and thresholds are fixed-point numbers: ScoreScale stands for 1.0.
ScoreScale == 1000

Abs(x) == IF x < 0 THEN 0 - x ELSE x

\* _extract_top_digits: the digest scaled down (10**67 of 10**77 in the code).
TopDigits(value) == value \div 10

\* _sha256_hex_similarity without the 0.6 offset and the 1.5 factor:
\* 1 - diff / max_value clamped to [0, 1].
Sha256HexSimilarityUnscaled(draw_number, winning_value) ==
    LET left_int == Sha256Int(draw_number)
        right_int == Sha256Int(winning_value)
        diff == Abs(left_int - right_int)
        max_value == (2 ^ DigestBits) - 1
        similarity == (ScoreScale * max_value - ScoreScale * diff) \div max_value
        clamped == IF similarity < 0 THEN 0
                   ELSE IF similarity > ScoreScale THEN ScoreScale
                   ELSE similarity
    IN [score |-> clamped,
        draw_top_digits |-> TopDigits(left_int),
        winning_top_digits |-> TopDigits(right_int)]

\* _sha256_hex_similarity: (0.6 - diff / max_value) * 1.5 clamped to [0, 1].
Sha256HexSimilarity(draw_number, winning_value) ==
    LET left_int == Sha256Int(draw_number)
        right_int == Sha256Int(winning_value)
        diff == Abs(left_int - right_int)
        max_value == (2 ^ DigestBits) - 1
        similarity == ((6 * ScoreScale * max_value - 10 * ScoreScale * diff) * 15)
                          \div (100 * max_value)
        clamped == IF similarity < 0 THEN 0
                   ELSE IF similarity > ScoreScale THEN ScoreScale
                   ELSE similarity
    IN [score |-> clamped,
        draw_top_digits |-> TopDigits(left_int),
        winning_top_digits |-> TopDigits(right_int)]

\* ScoringAlgorithm.evaluate with a missing threshold read as one nobody
\* passes: passed is "false" instead of "none".
AlgorithmEvaluateFailsWithoutThreshold(draw_number, winning_value, threshold) ==
    LET computation == Sha256HexSimilarity(draw_number, winning_value)
    IN [score |-> computation.score,
        passed |-> IF threshold # NULL /\ computation.score >= threshold
                   THEN "true" ELSE "false",
        draw_top_digits |-> computation.draw_top_digits,
        winning_top_digits |-> computation.winning_top_digits]

\* ScoringAlgorithm.evaluate: passed is "none" without a threshold.
AlgorithmEvaluate(draw_number, winning_value, threshold) ==
    LET computation == Sha256HexSimilarity(draw_number, winning_value)
    IN [score |-> computation.score,
        passed |-> IF threshold = NULL THEN "none"
                   ELSE IF computation.score >= threshold THEN "true"
                   ELSE "false",
        draw_top_digits |-> computation.draw_top_digits,
        winning_top_digits |-> computation.winning_top_digits]

\* DEFAULT_SCORING_REGISTRY: the keys registered at import time.
DefaultRegistryKeys == {"sha256_hex_proximity"}

\* ------------------------------------------------------ prize-draw engine
\* No winning number passed (winning_number=None).
NoWinningNumber ==
    [id |-> NULL, draw_type_id |-> NULL, value |-> <<>>, created_at |-> NULL]

\* session.scalar(select(PrizeDrawResult).where(...)): the first of the
\* matching row ids, or NULL.
FirstResult(matching) ==
    IF matching = {} THEN NULL
    ELSE CHOOSE i \in matching : \A j \in matching : i <= j

\* The column values _upsert_result writes into the row `id`.
ResultRow(id, nft_instance, draw_type, winning_number, draw_number, similarity_score, draw_top_digits, winning_top_digits, threshold_used, outcome, evaluated_at) ==
    [id |-> id,
     draw_type_id |-> draw_type.id,
     winning_number_id |-> winning_number.id,
     user_id |-> nft_instance.user_id,
     definition_id |-> nft_instance.nft_id,
     instance_id |-> nft_instance.id,
     draw_number |-> draw_number,
     similarity_score |-> similarity_score,
     draw_top_digits |-> draw_top_digits,
     winning_top_digits |-> winning_top_digits,
     threshold_used |-> threshold_used,
     outcome |-> outcome,
     evaluated_at |-> evaluated_at]

\* _upsert_result without its lookups: every call inserts a row.
UpsertResultAlwaysInsert(rs, nft_instance, draw_type, winning_number, draw_number, similarity_score, draw_top_digits, winning_top_digits, threshold_used, outcome, evaluated_at) ==
    [raised |-> FALSE,
     results |-> Append(rs,
        ResultRow(Len(rs) + 1, nft_instance, draw_type, winning_number,
                  draw_number, similarity_score, draw_top_digits,
                  winning_top_digits, threshold_used, outcome, evaluated_at)),
     ret |-> Len(rs) + 1]

\* _upsert_result without the check of the row's instance: the row found by
\* definition is reused whoever it belongs to.
UpsertResultReusingAnyRow(rs, nft_instance, draw_type, winning_number, draw_number, similarity_score, draw_top_digits, winning_top_digits, threshold_used, outcome, evaluated_at) ==
    LET by_instance == FirstResult({i \in 1..Len(rs) :
                            /\ rs[i].instance_id = nft_instance.id
                            /\ rs[i].draw_type_id = draw_type.id})
        result_by_definition == FirstResult({i \in 1..Len(rs) :
                            /\ rs[i].definition_id = nft_instance.nft_id
                            /\ rs[i].draw_type_id = draw_type.id})
        result == IF by_instance = NULL THEN result_by_definition ELSE by_instance
        row == ResultRow(IF result = NULL THEN Len(rs) + 1 ELSE result,
                         nft_instance, draw_type, winning_number, draw_number,
                         similarity_score, draw_top_digits, winning_top_digits,
                         threshold_used, outcome, evaluated_at)
    IN IF result = NULL
       THEN [raised |-> FALSE, results |-> Append(rs, row), ret |-> Len(rs) + 1]
       ELSE [raised |-> FALSE, results |-> [rs EXCEPT ![result] = row],
             ret |-> result]

\* PrizeDrawEngine._upsert_result on the result table rs.
UpsertResult(rs, nft_instance, draw_type, winning_number, draw_number, similarity_score, draw_top_digits, winning_top_digits, threshold_used, outcome, evaluated_at) ==
    LET by_instance == FirstResult({i \in 1..Len(rs) :
                            /\ rs[i].instance_id = nft_instance.id
                            /\ rs[i].draw_type_id = draw_type.id})
        result_by_definition == FirstResult({i \in 1..Len(rs) :
                            /\ rs[i].definition_id = nft_instance.nft_id
                            /\ rs[i].draw_type_id = draw_type.id})
        conflict == by_instance = NULL /\ result_by_definition # NULL
                    /\ rs[result_by_definition].instance_id # NULL
                    /\ rs[result_by_definition].instance_id # nft_instance.id
        result == IF by_instance = NULL THEN result_by_definition ELSE by_instance
        row == ResultRow(IF result = NULL THEN Len(rs) + 1 ELSE result,
                         nft_instance, draw_type, winning_number, draw_number,
                         similarity_score, draw_top_digits, winning_top_digits,
                         threshold_used, outcome, evaluated_at)
    IN IF conflict THEN [raised |-> TRUE, results |-> rs, ret |-> NULL]
       ELSE IF result = NULL
       THEN [raised |-> FALSE, results |-> Append(rs, row), ret |-> Len(rs) + 1]
       ELSE [raised |-> FALSE, results |-> [rs EXCEPT ![result] = row],
             ret |-> result]

\* evaluate resolving the threshold with `threshold or default_threshold`:
\* an override of 0.0 falls back to the draw type's default.
EngineEvaluateFalsyOverride(rs, nft_instance, draw_type, winning_number, threshold, at) ==
    LET failed == [raised |-> TRUE, results |-> rs, ret |-> NULL,
                   similarity |-> NULL]
        derived == derive_draw_number(nft_instance.nft_origin)
        threshold_to_use == IF threshold \notin {NULL, 0} THEN threshold
                            ELSE draw_type.default_threshold
        evaluation == AlgorithmEvaluate(derived.value, winning_number.value,
                                        threshold_to_use)
        scored == winning_number # NoWinningNumber
        outcome == IF scored /\ evaluation.passed = "true" THEN "win"
                   ELSE IF scored /\ evaluation.passed = "false" THEN "lose"
                   ELSE "pending"
        upsert == UpsertResult(rs, nft_instance, draw_type, winning_number,
                      derived.value,
                      IF scored THEN evaluation.score ELSE NULL,
                      IF scored THEN evaluation.draw_top_digits ELSE NULL,
                      IF scored THEN evaluation.winning_top_digits ELSE NULL,
                      threshold_to_use, outcome, at)
    IN IF nft_instance.id = NULL \/ draw_type.id = NULL
          \/ nft_instance.user_id = NULL \/ nft_instance.nft_id = NULL
          \/ nft_instance.nft_origin = NoneStr
       THEN failed
       ELSE IF ~derived.ok THEN failed
       ELSE IF scored /\ draw_type.algorithm_key \notin DefaultRegistryKeys
       THEN failed
       ELSE IF upsert.raised THEN failed
       ELSE [raised |-> FALSE, results |-> upsert.results, ret |-> upsert.ret,
             similarity |-> IF scored THEN evaluation.score ELSE NULL]

\* PrizeDrawEngine.evaluate on the result table rs at time `at`.
EngineEvaluate(rs, nft_instance, draw_type, winning_number, threshold, at) ==
    LET failed == [raised |-> TRUE, results |-> rs, ret |-> NULL,
                   similarity |-> NULL]
        derived == derive_draw_number(nft_instance.nft_origin)
        threshold_to_use == IF threshold # NULL THEN threshold
                            ELSE draw_type.default_threshold
        evaluation == AlgorithmEvaluate(derived.value, winning_number.value,
                                        threshold_to_use)
        scored == winning_number # NoWinningNumber
        outcome == IF scored /\ evaluation.passed = "true" THEN "win"
                   ELSE IF scored /\ evaluation.passed = "false" THEN "lose"
                   ELSE "pending"
        upsert == UpsertResult(rs, nft_instance, draw_type, winning_number,
                      derived.value,
                      IF scored THEN evaluation.score ELSE NULL,
                      IF scored THEN evaluation.draw_top_digits ELSE NULL,
                      IF scored THEN evaluation.winning_top_digits ELSE NULL,
                      threshold_to_use, outcome, at)
    IN IF nft_instance.id = NULL \/ draw_type.id = NULL
          \/ nft_instance.user_id = NULL \/ nft_instance.nft_id = NULL
          \/ nft_instance.nft_origin = NoneStr
       THEN failed
       ELSE IF ~derived.ok THEN failed
       ELSE IF scored /\ draw_type.algorithm_key \notin DefaultRegistryKeys
       THEN failed
       ELSE IF upsert.raised THEN failed
       ELSE [raised |-> FALSE, results |-> upsert.results, ret |-> upsert.ret,
             similarity |-> IF scored THEN evaluation.score ELSE NULL]

\* latest_winning_number ordering by created_at only: among equal
\* timestamps the first row comes back.
LatestWinningNumberWithoutIdOrder(wns, draw_type) ==
    LET mine == {i \in 1..Len(wns) : wns[i].draw_type_id = draw_type.id}
    IN IF mine = {} THEN NoWinningNumber
       ELSE wns[CHOOSE i \in mine : \A j \in mine :
                    \/ wns[j].created_at < wns[i].created_at
                    \/ (wns[j].created_at = wns[i].created_at /\ i <= j)]

\* PrizeDrawType.latest_winning_number: greatest (created_at, id) of the type.
LatestWinningNumber(wns, draw_type) ==
    LET mine == {i \in 1..Len(wns) : wns[i].draw_type_id = draw_type.id}
    IN IF mine = {} THEN NoWinningNumber
       ELSE wns[CHOOSE i \in mine : \A j \in mine :
                    \/ wns[j].created_at < wns[i].created_at
                    \/ (wns[j].created_at = wns[i].created_at /\ j <= i)]

\* --------------------------------------------------------- grid: BingoCard
\* Origin token of an ownership created by the issuance collaborator.
IssuedOrigin == <<"a", "b">>

\* The user's ownership rows, keyed by definition (uq_user_nft).
OwnershipOf(owns, u, d) ==
    IF \E o \in owns : o.user_id = u /\ o.nft_id = d
    THEN CHOOSE o \in owns : o.user_id = u /\ o.nft_id = d
    ELSE [id |-> NULL, user_id |-> NULL, nft_id |-> NULL, nft_origin |-> NoneStr]

\* The candidate pool without candidate_ids.discard(center_template.id).
CandidatesKeepingCenter(center, excluded, included) ==
    (IF included # {} THEN included ELSE Defs) \ excluded

\* The candidate pool without `candidate_ids -= excluded_ids`.
CandidatesKeepingExcluded(center, excluded, included) ==
    (IF included # {} THEN included ELSE Defs) \ {center}

\* BingoCard.generate_for_user: the candidate pool.
Candidates(center, excluded, included) ==
    ((IF included # {} THEN included ELSE Defs) \ {center}) \ excluded

\* The non-centre positions before rng.shuffle.
Positions == <<0, 1, 2, 3, 5, 6, 7, 8>>

\* Outcomes of rng.shuffle(positions) the model draws from.
Shuffles == {Positions, <<3, 5, 0, 8, 1, 6, 2, 7>>}

\* Outcomes of rng.sample(list(candidate_ids), 8) the model draws from: the 8
\* smallest or the 8 largest candidates (rng.shuffle supplies the order).
Samples(candidate_ids) ==
    LET pool == SetToSeq(candidate_ids)
    IN {SubSeq(pool, 1, 8), SubSeq(pool, Len(pool) - 7, Len(pool))}

\* build_cell with an ownership_map that is not restricted to the user's rows.
BuildCellFromAnyOwner(owns, u, idx, template_id, at) ==
    LET ownership == IF \E o \in owns : o.nft_id = template_id
                     THEN CHOOSE o \in owns : o.nft_id = template_id
                     ELSE OwnershipOf(owns, u, template_id)
    IN IF ownership.id # NULL
       THEN [idx |-> idx, target_template_id |-> template_id,
             nft_id |-> ownership.nft_id,
             matched_ownership_id |-> ownership.id,
             state |-> "unlocked", unlocked_at |-> at]
       ELSE [idx |-> idx, target_template_id |-> template_id,
             nft_id |-> NULL, matched_ownership_id |-> NULL,
             state |-> "locked", unlocked_at |-> NULL]

\* generate_for_user.build_cell
BuildCell(owns, u, idx, template_id, at) ==
    LET ownership == OwnershipOf(owns, u, template_id)
    IN IF ownership.id # NULL
       THEN [idx |-> idx, target_template_id |-> template_id,
             nft_id |-> ownership.nft_id,
             matched_ownership_id |-> ownership.id,
             state |-> "unlocked", unlocked_at |-> at]
       ELSE [idx |-> idx, target_template_id |-> template_id,
             nft_id |-> NULL, matched_ownership_id |-> NULL,
             state |-> "locked", unlocked_at |-> NULL]

\* The card generate_for_user returns: the centre cell first, then the cells
\* of zip(positions, selected_ids), in the order they were appended.
NewCard(owns, id, u, center, state, selected_ids, positions, at) ==
    [id |-> id, user_id |-> u, issued_at |-> at, completed_at |-> NULL,
     state |-> state,
     cells |-> <<BuildCell(owns, u, 4, center, at)>> \o
               [k \in 1..8 |->
                   BuildCell(owns, u, positions[k], selected_ids[k], at)]]

\* BingoCard.winning_lines
WinningLines ==
    <<<<0, 1, 2>>, <<3, 4, 5>>, <<6, 7, 8>>, <<0, 3, 6>>,
      <<1, 4, 7>>, <<2, 5, 8>>, <<0, 4, 8>>, <<2, 4, 6>>>>

\* BingoCard.completed_lines: self.cells[a] is the a-th element of the list
\* (0-based), whatever its idx.
completed_lines(card) ==
    SelectSeq(WinningLines,
              LAMBDA line : \A k \in 1..3 :
                  card.cells[line[k] + 1].state = "unlocked")

\* any() where the code has all().
AnyUnlocked(cells) == \E k \in 1..Len(cells) : cells[k].state = "unlocked"

\* all(cell.state == "unlocked" for cell in self.cells)
AllUnlocked(cells) == \A k \in 1..Len(cells) : cells[k].state = "unlocked"

\* unlock_cells_for_ownership without the test cell.state == "locked": a
\* matching cell is unlocked again.
UnlockCardIgnoringState(card, ownership, at) ==
    LET hit(cell) == cell.target_template_id = ownership.nft_id
        unlocked_any == \E k \in 1..Len(card.cells) : hit(card.cells[k])
        cells == [k \in 1..Len(card.cells) |->
                    IF hit(card.cells[k])
                    THEN [card.cells[k] EXCEPT
                             !.nft_id = ownership.nft_id,
                             !.matched_ownership_id = ownership.id,
                             !.state = "unlocked",
                             !.unlocked_at = at]
                    ELSE card.cells[k]]
        complete == unlocked_any /\ card.completed_at = NULL /\ AllUnlocked(cells)
    IN [card |-> [card EXCEPT
                     !.cells = cells,
                     !.completed_at = IF complete THEN at ELSE @,
                     !.state = IF complete THEN "completed" ELSE @],
        unlocked_any |-> unlocked_any]

\* unlock_cells_for_ownership without the guard of the completion block: a
\* full card is stamped completed on every call.
UnlockCardRestamping(card, ownership, at) ==
    LET hit(cell) == cell.state = "locked"
                     /\ cell.target_template_id = ownership.nft_id
        unlocked_any == \E k \in 1..Len(card.cells) : hit(card.cells[k])
        cells == [k \in 1..Len(card.cells) |->
                    IF hit(card.cells[k])
                    THEN [card.cells[k] EXCEPT
                             !.nft_id = ownership.nft_id,
                             !.matched_ownership_id = ownership.id,
                             !.state = "unlocked",
                             !.unlocked_at = at]
                    ELSE card.cells[k]]
        complete == AllUnlocked(cells)
    IN [card |-> [card EXCEPT
                     !.cells = cells,
                     !.completed_at = IF complete THEN at ELSE @,
                     !.state = IF complete THEN "completed" ELSE @],
        unlocked_any |-> unlocked_any]

\* unlock_cells_for_ownership without the test of the cell's target: every
\* locked cell takes the ownership.
UnlockCardAnyTarget(card, ownership, at) ==
    LET hit(cell) == cell.state = "locked"
        unlocked_any == \E k \in 1..Len(card.cells) : hit(card.cells[k])
        cells == [k \in 1..Len(card.cells) |->
                    IF hit(card.cells[k])
                    THEN [card.cells[k] EXCEPT
                             !.nft_id = ownership.nft_id,
                             !.matched_ownership_id = ownership.id,
                             !.state = "unlocked",
                             !.unlocked_at = at]
                    ELSE card.cells[k]]
        complete == unlocked_any /\ card.completed_at = NULL /\ AllUnlocked(cells)
    IN [card |-> [card EXCEPT
                     !.cells = cells,
                     !.completed_at = IF complete THEN at ELSE @,
                     !.state = IF complete THEN "completed" ELSE @],
        unlocked_any |-> unlocked_any]

\* BingoCard.unlock_cells_for_ownership: the card afterwards and the flag
\* returned.
UnlockCard(card, ownership, at) ==
    LET hit(cell) == cell.state = "locked"
                     /\ cell.target_template_id = ownership.nft_id
        unlocked_any == \E k \in 1..Len(card.cells) : hit(card.cells[k])
        cells == [k \in 1..Len(card.cells) |->
                    IF hit(card.cells[k])
                    THEN [card.cells[k] EXCEPT
                             !.nft_id = ownership.nft_id,
                             !.matched_ownership_id = ownership.id,
                             !.state = "unlocked",
                             !.unlocked_at = at]
                    ELSE card.cells[k]]
        complete == unlocked_any /\ card.completed_at = NULL /\ AllUnlocked(cells)
    IN [card |-> [card EXCEPT
                     !.cells = cells,
                     !.completed_at = IF complete THEN at ELSE @,
                     !.state = IF complete THEN "completed" ELSE @],
        unlocked_any |-> unlocked_any]

\* User.unlock_bingo_cells: every active card of the user is offered the
\* ownership (self.bingo_cards is taken as loaded from the database).
UnlockUserCards(cs, u, ownership, at) ==
    LET mine(c) == cs[c].user_id = u /\ cs[c].state = "active"
    IN [cards |-> [c \in 1..Len(cs) |->
                      IF mine(c) THEN UnlockCard(cs[c], ownership, at).card
                      ELSE cs[c]],
        unlocked_any |-> \E c \in 1..Len(cs) :
                            mine(c) /\ UnlockCard(cs[c], ownership, at).unlocked_any]

\* ensure_bingo_cells without the test of the cell's state: every cell whose
\* target the user owns is stamped again.
EnsureCardIgnoringState(owns, card, at) ==
    LET hit(cell) == OwnershipOf(owns, card.user_id, cell.target_template_id).id # NULL
        unlocked == Cardinality({k \in 1..Len(card.cells) : hit(card.cells[k])})
        cells == [k \in 1..Len(card.cells) |->
                    IF hit(card.cells[k])
                    THEN LET ownership == OwnershipOf(owns, card.user_id,
                                              card.cells[k].target_template_id)
                         IN [card.cells[k] EXCEPT
                                !.nft_id = ownership.nft_id,
                                !.matched_ownership_id = ownership.id,
                                !.state = "unlocked",
                                !.unlocked_at = at]
                    ELSE card.cells[k]]
        complete == unlocked > 0 /\ card.completed_at = NULL /\ AllUnlocked(cells)
    IN [card |-> [card EXCEPT
                     !.cells = cells,
                     !.completed_at = IF complete THEN at ELSE @,
                     !.state = IF complete THEN "completed" ELSE @],
        unlocked |-> unlocked]

\* ensure_bingo_cells without the completion block.
EnsureCardNeverCompleting(owns, card, at) ==
    LET hit(cell) == cell.state = "locked"
                     /\ OwnershipOf(owns, card.user_id, cell.target_template_id).id # NULL
        unlocked == Cardinality({k \in 1..Len(card.cells) : hit(card.cells[k])})
        cells == [k \in 1..Len(card.cells) |->
                    IF hit(card.cells[k])
                    THEN LET ownership == OwnershipOf(owns, card.user_id,
                                              card.cells[k].target_template_id)
                         IN [card.cells[k] EXCEPT
                                !.nft_id = ownership.nft_id,
                                !.matched_ownership_id = ownership.id,
                                !.state = "unlocked",
                                !.unlocked_at = at]
                    ELSE card.cells[k]]
    IN [card |-> [card EXCEPT !.cells = cells], unlocked |-> unlocked]

\* User.ensure_bingo_cells on one card: locked cells whose target the user
\* owns are unlocked; the card and the number of cells unlocked.
EnsureCard(owns, card, at) ==
    LET hit(cell) == cell.state = "locked"
                     /\ OwnershipOf(owns, card.user_id, cell.target_template_id).id # NULL
        unlocked == Cardinality({k \in 1..Len(card.cells) : hit(card.cells[k])})
        cells == [k \in 1..Len(card.cells) |->
                    IF hit(card.cells[k])
                    THEN LET ownership == OwnershipOf(owns, card.user_id,
                                              card.cells[k].target_template_id)
                         IN [card.cells[k] EXCEPT
                                !.nft_id = ownership.nft_id,
                                !.matched_ownership_id = ownership.id,
                                !.state = "unlocked",
                                !.unlocked_at = at]
                    ELSE card.cells[k]]
        complete == unlocked > 0 /\ card.completed_at = NULL /\ AllUnlocked(cells)
    IN [card |-> [card EXCEPT
                     !.cells = cells,
                     !.completed_at = IF complete THEN at ELSE @,
                     !.state = IF complete THEN "completed" ELSE @],
        unlocked |-> unlocked]

RECURSIVE SumSeq(_)
SumSeq(s) == IF s = <<>> THEN 0 ELSE Head(s) + SumSeq(Tail(s))

\* The relationship BingoCard.cells is loaded ORDER BY idx.
CellsByIdx(cells) ==
    [k \in 1..Len(cells) |->
        cells[CHOOSE j \in 1..Len(cells) :
                Cardinality({i \in 1..Len(cells) : cells[i].idx < cells[j].idx}) = k - 1]]

\* ------------------------------------------------- storage (foreign keys)
\* Removal of an ownership row: bingo_cells.matched_ownership_id and
\* prize_draw_results.ownership_id are declared ON DELETE SET NULL.
CellsAfterDelete(cells, oid) ==
    [k \in 1..Len(cells) |->
        IF cells[k].matched_ownership_id = oid
        THEN [cells[k] EXCEPT !.matched_ownership_id = NULL]
        ELSE cells[k]]

DeleteOwnership(o) ==
    /\ o \in ownerships
    /\ ownerships' = ownerships \ {o}
    /\ cards' = [c \in 1..Len(cards) |->
                    [cards[c] EXCEPT !.cells = CellsAfterDelete(@, o.id)]]
    /\ results' = [r \in 1..Len(results) |->
                    IF results[r].instance_id = o.id
                    THEN [results[r] EXCEPT !.instance_id = NULL]
                    ELSE results[r]]
    /\ lastCall' = [op |-> "delete_ownership", raised |-> FALSE, ret |-> NULL,
                    args |-> <<o.id>>, again |-> FALSE]
    /\ UNCHANGED winningNumbers

\* ----------------------------------------------------- prize-draw actions
\* The draw types of the database, and one that was never persisted.
DrawTypeRows ==
    {[id |-> 1, algorithm_key |-> "sha256_hex_proximity",
      default_threshold |-> NULL],
     [id |-> 2, algorithm_key |-> "sha256_hex_proximity",
      default_threshold |-> 800]}

UnpersistedDrawType ==
    [id |-> NULL, algorithm_key |-> "sha256_hex_proximity",
     default_threshold |-> NULL]

\* An NFT instance that was never flushed (id is None).
UnpersistedInstance ==
    [id |-> NULL, user_id |-> 1, nft_id |-> 1, nft_origin |-> <<"a", "b">>]

\* An instance whose nft_origin column is NULL.
OriginlessInstance ==
    [id |-> OwnershipId(2, 3), user_id |-> 2, nft_id |-> 3,
     nft_origin |-> NoneStr]

\* The instances the draw scenarios start from: two users hold definition 1,
\* user 1 also holds definition 2, user 2 holds definition 2 with a blank
\* origin.
DrawInstances ==
    {[id |-> OwnershipId(1, 1), user_id |-> 1, nft_id |-> 1,
      nft_origin |-> <<" ", "A", "b", " ">>],
     [id |-> OwnershipId(2, 1), user_id |-> 2, nft_id |-> 1,
      nft_origin |-> <<"b", "a">>],
     [id |-> OwnershipId(1, 2), user_id |-> 1, nft_id |-> 2,
      nft_origin |-> <<"B", "a">>],
     [id |-> OwnershipId(2, 2), user_id |-> 2, nft_id |-> 2,
      nft_origin |-> <<" ">>]}

WinningValues == {<<"a", "b">>, <<"b", "a">>}

ThresholdOverrides == {NULL, 0}

\* workflows.submit_winning_number
SubmitWinningNumber(draw_type, value) ==
    /\ Len(winningNumbers) < MaxWinningNumbers
    /\ IF draw_type.id = NULL
       THEN /\ UNCHANGED winningNumbers
            /\ lastCall' = [op |-> "submit_winning_number", raised |-> TRUE,
                            ret |-> NULL, args |-> <<draw_type.id>>,
                            again |-> FALSE]
       ELSE /\ winningNumbers' = Append(winningNumbers,
                    [id |-> Len(winningNumbers) + 1,
                     draw_type_id |-> draw_type.id, value |-> value,
                     created_at |-> now])
            /\ lastCall' = [op |-> "submit_winning_number", raised |-> FALSE,
                            ret |-> Len(winningNumbers) + 1,
                            args |-> <<draw_type.id>>, again |-> FALSE]
    /\ UNCHANGED <<ownerships, cards, results>>

\* A call of PrizeDrawEngine.evaluate as a step of the system.
EvaluateStep(op, nft_instance, draw_type, winning_number, threshold) ==
    LET e == EngineEvaluate(results, nft_instance, draw_type, winning_number,
                            threshold, now)
    IN /\ results' = e.results
       /\ lastCall' = [op |-> op, raised |-> e.raised, ret |-> e.ret,
                       args |-> <<nft_instance.id, draw_type.id,
                                  winning_number.id, threshold>>,
                       again |-> ~e.raised /\ e.ret <= Len(results)]
       /\ UNCHANGED <<ownerships, cards, winningNumbers>>

\* PrizeDrawEngine.evaluate
Evaluate(nft_instance, draw_type, winning_number, threshold) ==
    EvaluateStep("evaluate", nft_instance, draw_type, winning_number, threshold)

\* workflows.run_prize_draw: the latest winning number when none is passed.
RunPrizeDraw(instance, draw_type, winning_number, threshold) ==
    EvaluateStep("run_prize_draw", instance, draw_type,
                 IF winning_number # NoWinningNumber THEN winning_number
                 ELSE LatestWinningNumber(winningNumbers, draw_type),
                 threshold)

\* The clock moves with every call of the draw scenarios.
DrawClock ==
    /\ now < MaxDrawTime
    /\ now' = now + 1
    /\ UNCHANGED <<sessions, registry>>

InitDraw ==
    /\ ownerships = DrawInstances
    /\ cards = <<>>
    /\ winningNumbers = <<>>
    /\ results = <<>>
    /\ now = 0
    /\ sessions = NoSessions
    /\ registry = EmptyRegistry
    /\ lastCall = [op |-> "none", raised |-> FALSE, ret |-> NULL,
                   args |-> <<>>, again |-> FALSE]

NextDraw ==
    \/ DrawClock /\ \E dt \in DrawTypeRows \cup {UnpersistedDrawType},
                       v \in WinningValues :
            SubmitWinningNumber(dt, v)
    \/ DrawClock /\ \E i \in ownerships \cup {UnpersistedInstance,
                                              OriginlessInstance},
                       dt \in DrawTypeRows \cup {UnpersistedDrawType},
                       wn \in Range(winningNumbers) \cup {NoWinningNumber},
                       t \in ThresholdOverrides :
            Evaluate(i, dt, wn, t)
    \/ DrawClock /\ \E i \in ownerships, dt \in DrawTypeRows,
                       wn \in Range(winningNumbers) \cup {NoWinningNumber} :
            RunPrizeDraw(i, dt, wn, NULL)
    \/ DrawClock /\ \E o \in ownerships : DeleteOwnership(o)

SpecDraw == InitDraw /\ [][NextDraw]_vars

\* ------------------------------------------------------- batch evaluation
\* The loop of evaluate_batch with each evaluation put in front of the list.
RECURSIVE EvaluateBatchLoopPrepending(_, _, _, _, _, _, _)
EvaluateBatchLoopPrepending(rs, instances, draw_type, winning_number, threshold, at, acc) ==
    IF instances = <<>> THEN [raised |-> FALSE, results |-> rs, ret |-> acc]
    ELSE LET e == EngineEvaluate(rs, Head(instances), draw_type,
                                 winning_number, threshold, at)
         IN IF e.raised THEN [raised |-> TRUE, results |-> rs, ret |-> <<>>]
            ELSE EvaluateBatchLoopPrepending(e.results, Tail(instances),
                     draw_type, winning_number, threshold, at,
                     <<e.ret>> \o acc)

\* The loop of evaluate_batch and of run_prize_draw_batch: evaluate is called
\* for each instance in turn; an exception ends the loop and leaves what the
\* earlier calls wrote in the session.
RECURSIVE EvaluateBatchLoop(_, _, _, _, _, _, _)
EvaluateBatchLoop(rs, instances, draw_type, winning_number, threshold, at, acc) ==
    IF instances = <<>> THEN [raised |-> FALSE, results |-> rs, ret |-> acc]
    ELSE LET e == EngineEvaluate(rs, Head(instances), draw_type,
                                 winning_number, threshold, at)
         IN IF e.raised THEN [raised |-> TRUE, results |-> rs, ret |-> <<>>]
            ELSE EvaluateBatchLoop(e.results, Tail(instances), draw_type,
                                   winning_number, threshold, at,
                                   Append(acc, e.ret))

\* workflows._validate_instances_compatible_with_result_uniqueness
InstancesCompatible(instances) ==
    /\ \A i \in 1..Len(instances) :
          instances[i].id # NULL /\ instances[i].nft_id # NULL
    /\ \A i, j \in 1..Len(instances) :
          instances[i].nft_id = instances[j].nft_id
              => instances[i].id = instances[j].id

\* workflows.run_prize_draw_batch called with a list of instances.
RunBatch(rs, wns, draw_type, winning_number, instances, threshold, at) ==
    LET failed == [raised |-> TRUE, results |-> rs, ret |-> <<>>]
        resolved == IF winning_number # NoWinningNumber THEN winning_number
                    ELSE LatestWinningNumber(wns, draw_type)
    IN IF draw_type.id = NULL THEN failed
       ELSE IF resolved = NoWinningNumber THEN failed
       ELSE IF instances = <<>>
       THEN [raised |-> FALSE, results |-> rs, ret |-> <<>>]
       ELSE IF ~InstancesCompatible(instances) THEN failed
       ELSE EvaluateBatchLoop(rs, instances, draw_type, resolved, threshold,
                              at, <<>>)

\* The lists of instances the batch calls are made with.
BatchInputs ==
    UNION {[1..n -> ownerships \cup {UnpersistedInstance}] : n \in 0..MaxBatch}

\* The ids of a list of instances.
InstanceIds(instances) == [i \in 1..Len(instances) |-> instances[i].id]

\* PrizeDrawEngine.evaluate_batch
EvaluateBatch(instances, draw_type, winning_number, threshold) ==
    LET b == EvaluateBatchLoop(results, instances, draw_type, winning_number,
                               threshold, now, <<>>)
    IN /\ results' = b.results
       /\ lastCall' = [op |-> "evaluate_batch", raised |-> b.raised,
                       ret |-> b.ret,
                       args |-> <<InstanceIds(instances), draw_type.id,
                                  winning_number.id, threshold>>,
                       again |-> FALSE]
       /\ UNCHANGED <<ownerships, cards, winningNumbers>>

\* workflows.run_prize_draw_batch
RunPrizeDrawBatch(draw_type, winning_number, instances, threshold) ==
    LET b == RunBatch(results, winningNumbers, draw_type, winning_number,
                      instances, threshold, now)
    IN /\ results' = b.results
       /\ lastCall' = [op |-> "run_prize_draw_batch", raised |-> b.raised,
                       ret |-> b.ret,
                       args |-> <<InstanceIds(instances), draw_type.id,
                                  winning_number.id, threshold>>,
                       again |-> FALSE]
       /\ UNCHANGED <<ownerships, cards, winningNumbers>>

\* The clock moves with every call of the batch scenarios.
BatchClock ==
    /\ now < MaxBatchTime
    /\ now' = now + 1
    /\ UNCHANGED <<sessions, registry>>

NextBatch ==
    \/ BatchClock /\ \E dt \in DrawTypeRows, v \in WinningValues :
            SubmitWinningNumber(dt, v)
    \/ BatchClock /\ \E instances \in BatchInputs,
                       dt \in DrawTypeRows \cup {UnpersistedDrawType},
                       wn \in Range(winningNumbers) \cup {NoWinningNumber},
                       t \in ThresholdOverrides :
            EvaluateBatch(instances, dt, wn, t)
    \/ BatchClock /\ \E instances \in BatchInputs,
                       dt \in DrawTypeRows \cup {UnpersistedDrawType},
                       wn \in Range(winningNumbers) \cup {NoWinningNumber},
                       t \in ThresholdOverrides :
            RunPrizeDrawBatch(dt, wn, instances, t)

SpecBatch == InitDraw /\ [][NextBatch]_vars

\* --------------------------------------------------- concurrent evaluators
\* Each evaluator runs PrizeDrawEngine.evaluate in a database session of its
\* own: the lookups of _upsert_result read the committed rows, flush() sends
\* the INSERT or UPDATE, and the caller commits.
Evaluators == 1..NumEvaluators

IdleSession ==
    [pc |-> "idle", key |-> <<NULL, NULL>>, row |-> <<>>, insert |-> FALSE,
     error |-> "none"]

\* The instances the evaluators are called with.
RaceInstances == {i \in DrawInstances : i.nft_origin # <<" ">>}

\* A table without uq_prize_draw_result_unique.
NoUniqueConstraint(rows, row) == FALSE

\* UniqueConstraint("nft_id", "draw_type_id"): does row collide with rows?
UniqueViolation(rows, row) ==
    \E r \in rows : /\ r.definition_id = row.definition_id
                    /\ r.draw_type_id = row.draw_type_id

\* The rows other open sessions have inserted and not yet committed.
UncommittedInserts(e) ==
    {sessions[o].row : o \in {x \in Evaluators :
        x # e /\ sessions[x].pc = "flushed" /\ sessions[x].insert}}

\* evaluate up to the end of _upsert_result: the precondition checks, the
\* lookups against the committed rows and the row added to or changed in the
\* session.
EvaluateLookup(e, nft_instance, draw_type) ==
    /\ sessions[e].pc = "idle"
    /\ LET ev == EngineEvaluate(results, nft_instance, draw_type,
                                NoWinningNumber, NULL, now)
       IN sessions' = [sessions EXCEPT ![e] =
            IF ev.raised
            THEN [IdleSession EXCEPT !.pc = "failed",
                                     !.key = <<nft_instance.id, draw_type.id>>,
                                     !.error = "ValueError"]
            ELSE [pc |-> "looked", key |-> <<nft_instance.id, draw_type.id>>,
                  row |-> ev.results[ev.ret], insert |-> ev.ret > Len(results),
                  error |-> "none"]]
    /\ UNCHANGED <<ownerships, cards, winningNumbers, results, now, lastCall, registry>>

\* session.flush() at the end of evaluate: the UPDATE goes through; the
\* INSERT is refused when a committed row holds the unique key, and waits for
\* an uncommitted one (the action is disabled) or gives up on the lock.
EvaluateFlush(e) ==
    /\ sessions[e].pc = "looked"
    /\ \/ /\ ~sessions[e].insert
          /\ sessions' = [sessions EXCEPT ![e].pc = "flushed"]
       \/ /\ sessions[e].insert
          /\ UniqueViolation(Range(results), sessions[e].row)
          /\ sessions' = [sessions EXCEPT ![e].pc = "failed",
                                          ![e].error = "IntegrityError"]
       \/ /\ sessions[e].insert
          /\ ~UniqueViolation(Range(results), sessions[e].row)
          /\ UniqueViolation(UncommittedInserts(e), sessions[e].row)
          /\ sessions' = [sessions EXCEPT ![e].pc = "failed",
                                          ![e].error = "OperationalError"]
       \/ /\ sessions[e].insert
          /\ ~UniqueViolation(Range(results), sessions[e].row)
          /\ ~UniqueViolation(UncommittedInserts(e), sessions[e].row)
          /\ sessions' = [sessions EXCEPT ![e].pc = "flushed"]
    /\ UNCHANGED <<ownerships, cards, winningNumbers, results, now, lastCall, registry>>

\* The caller's commit: the session's row becomes visible to the others.
EvaluateCommit(e) ==
    /\ sessions[e].pc = "flushed"
    /\ results' = IF sessions[e].insert
                  THEN Append(results,
                              [sessions[e].row EXCEPT !.id = Len(results) + 1])
                  ELSE [results EXCEPT ![sessions[e].row.id] = sessions[e].row]
    /\ sessions' = [sessions EXCEPT ![e].pc = "committed"]
    /\ UNCHANGED <<ownerships, cards, winningNumbers, now, lastCall, registry>>

InitRace ==
    /\ ownerships = DrawInstances
    /\ cards = <<>>
    /\ winningNumbers = <<>>
    /\ results = <<>>
    /\ now \in 0..1
    /\ sessions = [e \in Evaluators |-> IdleSession]
    /\ registry = EmptyRegistry
    /\ lastCall = [op |-> "none", raised |-> FALSE, ret |-> NULL,
                   args |-> <<>>, again |-> FALSE]

NextRace ==
    \/ \E e \in Evaluators, i \in RaceInstances, dt \in DrawTypeRows :
            EvaluateLookup(e, i, dt)
    \/ \E e \in Evaluators : EvaluateFlush(e)
    \/ \E e \in Evaluators : EvaluateCommit(e)

SpecRace == InitRace /\ [][NextRace]_vars

\* --------------------------------------------------------- top selection
\* order_by(similarity_score desc nulls last, evaluated_at asc, id asc)
OrderBefore(a, b) ==
    \/ a.similarity_score # NULL /\ b.similarity_score = NULL
    \/ /\ a.similarity_score # NULL
       /\ b.similarity_score # NULL
       /\ a.similarity_score > b.similarity_score
    \/ a.similarity_score = b.similarity_score /\ a.evaluated_at < b.evaluated_at
    \/ /\ a.similarity_score = b.similarity_score
       /\ a.evaluated_at = b.evaluated_at
       /\ a.id < b.id

\* The rows of a statement in its order, cut at `limit`.
OrderedLimit(rows, limit) ==
    LET place(r) == Cardinality({q \in rows : OrderBefore(q, r)}) + 1
        n == IF Cardinality(rows) < limit THEN Cardinality(rows) ELSE limit
    IN [k \in 1..n |-> CHOOSE r \in rows : place(r) = k]

\* select_top_prize_draw_results without the filter on the winning number.
SelectTopOfAnyWinningNumber(rs, wns, draw_type, winning_number, limit, include_pending) ==
    IF draw_type.id = NULL \/ limit <= 0 THEN [raised |-> TRUE, ret |-> <<>>]
    ELSE LET resolved == IF winning_number # NoWinningNumber THEN winning_number
                         ELSE LatestWinningNumber(wns, draw_type)
         IN IF resolved = NoWinningNumber \/ resolved.id = NULL
            THEN [raised |-> TRUE, ret |-> <<>>]
            ELSE [raised |-> FALSE,
                  ret |-> OrderedLimit(
                      {r \in Range(rs) :
                          /\ r.draw_type_id = draw_type.id
                          /\ r.similarity_score # NULL
                          /\ include_pending \/ r.outcome # "pending"},
                      limit)]

\* workflows.select_top_prize_draw_results
SelectTop(rs, wns, draw_type, winning_number, limit, include_pending) ==
    IF draw_type.id = NULL \/ limit <= 0 THEN [raised |-> TRUE, ret |-> <<>>]
    ELSE LET resolved == IF winning_number # NoWinningNumber THEN winning_number
                         ELSE LatestWinningNumber(wns, draw_type)
         IN IF resolved = NoWinningNumber \/ resolved.id = NULL
            THEN [raised |-> TRUE, ret |-> <<>>]
            ELSE [raised |-> FALSE,
                  ret |-> OrderedLimit(
                      {r \in Range(rs) :
                          /\ r.draw_type_id = draw_type.id
                          /\ r.winning_number_id = resolved.id
                          /\ r.similarity_score # NULL
                          /\ include_pending \/ r.outcome # "pending"},
                      limit)]

\* The limit= values of the selection calls.
SelectLimits == {0, 1, 2}

\* A call of select_top_prize_draw_results: a query, nothing is written.
SelectTopPrizeDrawResults(draw_type, winning_number, limit, include_pending) ==
    LET r == SelectTop(results, winningNumbers, draw_type, winning_number,
                       limit, include_pending)
    IN /\ lastCall' = [op |-> "select_top_prize_draw_results",
                       raised |-> r.raised, ret |-> r.ret,
                       args |-> <<draw_type.id, winning_number.id, limit,
                                  include_pending>>,
                       again |-> FALSE]
       /\ UNCHANGED <<ownerships, cards, winningNumbers, results, now, sessions, registry>>

\* Winning numbers are submitted and instances evaluated with persisted
\* arguments; the selection is called at any point in between.
NextSelect ==
    \/ DrawClock /\ \E dt \in DrawTypeRows, v \in WinningValues :
            SubmitWinningNumber(dt, v)
    \/ DrawClock /\ \E i \in ownerships, dt \in DrawTypeRows,
                       t \in ThresholdOverrides :
            RunPrizeDraw(i, dt, NoWinningNumber, t)
    \/ \E dt \in DrawTypeRows,
          wn \in Range(winningNumbers) \cup {NoWinningNumber},
          limit \in SelectLimits, include_pending \in BOOLEAN :
            SelectTopPrizeDrawResults(dt, wn, limit, include_pending)

SpecSelect == InitDraw /\ [][NextSelect]_vars

\* ------------------------------------------- latest winning number scenario
\* The clock of the winning numbers' created_at: two submissions may read
\* the same timestamp.
SubmitClock ==
    /\ now' \in {now, now + 1}
    /\ now' <= MaxBatchTime
    /\ UNCHANGED <<sessions, registry>>

\* Winning numbers are submitted; batches and selections are called without
\* a winning number.
NextLatest ==
    \/ SubmitClock /\ \E dt \in DrawTypeRows, v \in WinningValues :
            SubmitWinningNumber(dt, v)
    \/ BatchClock /\ \E instances \in BatchInputs, dt \in DrawTypeRows :
            RunPrizeDrawBatch(dt, NoWinningNumber, instances, NULL)
    \/ \E dt \in DrawTypeRows, limit \in SelectLimits, include_pending \in BOOLEAN :
            SelectTopPrizeDrawResults(dt, NoWinningNumber, limit, include_pending)

SpecLatest == InitDraw /\ [][NextLatest]_vars

\* ------------------------------------------------------- draw number calls
OriginChars == {"a", "A", "b", " "}

\* The arguments derive_draw_number is called with: strings, None and a
\* value that is not a string.
OriginInputs ==
    UNION {[1..k -> OriginChars] : k \in 0..MaxOriginLen}
        \cup {NoneStr, NotAString}

\* The caller holds two origins.
InitDerive ==
    /\ ownerships = {}
    /\ cards = <<>>
    /\ winningNumbers = <<>>
    /\ results = <<>>
    /\ now = 0
    /\ sessions = NoSessions
    /\ registry = EmptyRegistry
    /\ \E x \in OriginInputs, y \in OriginInputs :
          lastCall = [op |-> "none", raised |-> FALSE, ret |-> <<>>,
                      args |-> <<x, y>>, again |-> FALSE]

\* derive_draw_number is called on each origin, and again on what the first
\* call returned.
DeriveCall ==
    /\ lastCall.op = "none"
    /\ LET first == derive_draw_number(lastCall.args[1])
           second == derive_draw_number(lastCall.args[2])
           again == IF first.ok THEN derive_draw_number(first.value) ELSE first
       IN lastCall' = [lastCall EXCEPT !.op = "derive_draw_number",
                                       !.raised = ~first.ok,
                                       !.ret = <<first, second, again>>]
    /\ UNCHANGED <<ownerships, cards, winningNumbers, results, now, sessions, registry>>

NextDerive == DeriveCall

SpecDerive == InitDerive /\ [][NextDerive]_vars

\* ------------------------------------------------------------ scorer calls
\* The ASCII strings the scorer is called with.
ScoreChars == {"a", "b", "A", " "}

ScoreStrings == UNION {[1..k -> ScoreChars] : k \in 0..MaxStrLen}

\* DEFAULT_SCORING_REGISTRY's scorer applied to (draw_number, winning_number).
ScoreCall(draw_number, winning_number) ==
    /\ lastCall' = [op |-> "sha256_hex_proximity", raised |-> FALSE,
                    ret |-> Sha256HexSimilarity(draw_number, winning_number).score,
                    args |-> <<draw_number, winning_number>>, again |-> FALSE]
    /\ UNCHANGED <<ownerships, cards, winningNumbers, results, now, sessions, registry>>

InitScore ==
    /\ ownerships = {}
    /\ cards = <<>>
    /\ winningNumbers = <<>>
    /\ results = <<>>
    /\ now = 0
    /\ sessions = NoSessions
    /\ registry = EmptyRegistry
    /\ lastCall = [op |-> "none", raised |-> FALSE, ret |-> NULL,
                   args |-> <<>>, again |-> FALSE]

NextScore == \E x \in ScoreStrings, y \in ScoreStrings : ScoreCall(x, y)

SpecScore == InitScore /\ [][NextScore]_vars

\* ------------------------------------------------------ algorithm registry
\* The keys and scorers of the algorithms offered to a registry; two
\* algorithms with one key and different scorers are different objects.
RegistryKeys == {"k1", "k2"}

RegistryScorers == {"s1", "s2"}

ScoringAlgorithms == [key : RegistryKeys, scorer : RegistryScorers]

NoAlgorithm == [key |-> "", scorer |-> ""]

\* A register that overwrites whatever it finds.
RegisterNeverRaises(algorithms, algorithm, replace) == FALSE

\* AlgorithmRegistry.register: the duplicate test.
RegisterRaises(algorithms, algorithm, replace) ==
    ~replace /\ algorithm.key \in DOMAIN algorithms

\* self._algorithms[algorithm.key] = algorithm
RegistryPut(algorithms, algorithm) ==
    [k \in DOMAIN algorithms \cup {algorithm.key} |->
        IF k = algorithm.key THEN algorithm ELSE algorithms[k]]

\* AlgorithmRegistry.register.
Register(algorithm, replace) ==
    /\ Len(registry.calls) < MaxRegisterCalls
    /\ LET raised == RegisterRaises(registry.algorithms, algorithm, replace)
       IN /\ registry' =
                [algorithms |-> IF raised THEN registry.algorithms
                                ELSE RegistryPut(registry.algorithms, algorithm),
                 calls |-> Append(registry.calls,
                                  [algorithm |-> algorithm, replace |-> replace,
                                   raised |-> raised])]
          /\ lastCall' = [op |-> "register", raised |-> raised,
                          ret |-> [error |-> IF raised THEN "ValueError"
                                             ELSE "none",
                                   value |-> NoAlgorithm],
                          args |-> <<algorithm, replace>>, again |-> FALSE]
    /\ UNCHANGED <<ownerships, cards, winningNumbers, results, now, sessions>>

\* AlgorithmRegistry.get.
Get(key) ==
    /\ lastCall' = IF key \in DOMAIN registry.algorithms
                   THEN [op |-> "get", raised |-> FALSE,
                         ret |-> [error |-> "none",
                                  value |-> registry.algorithms[key]],
                         args |-> <<key>>, again |-> FALSE]
                   ELSE [op |-> "get", raised |-> TRUE,
                         ret |-> [error |-> "KeyError", value |-> NoAlgorithm],
                         args |-> <<key>>, again |-> FALSE]
    /\ UNCHANGED <<ownerships, cards, winningNumbers, results, now, sessions, registry>>

NextRegistry ==
    \/ \E a \in ScoringAlgorithms, replace \in BOOLEAN : Register(a, replace)
    \/ \E k \in RegistryKeys : Get(k)

SpecRegistry == InitScore /\ [][NextRegistry]_vars

\* ------------------------------------------------------------------ ranking
\* datetime.min, the stand-in for a missing evaluated_at.
MinTime == -2

\* The sort key of _rank_prize_draw_results_with_ties.
RankKey(res) ==
    <<0 - (IF res.similarity_score = NULL THEN 0 ELSE res.similarity_score),
      IF res.evaluated_at = NULL THEN MinTime ELSE res.evaluated_at,
      IF res.id = NULL THEN 0 ELSE res.id>>

\* Tuple comparison of two sort keys.
KeyLess(a, b) ==
    \/ a[1] < b[1]
    \/ a[1] = b[1] /\ a[2] < b[2]
    \/ a[1] = b[1] /\ a[2] = b[2] /\ a[3] < b[3]

\* sorted(normalized, key=...): a stable sort.
SortedResults(rs) ==
    LET before(j, i) == \/ KeyLess(RankKey(rs[j]), RankKey(rs[i]))
                        \/ RankKey(rs[j]) = RankKey(rs[i]) /\ j < i
        place(i) == Cardinality({j \in 1..Len(rs) : before(j, i)}) + 1
    IN [k \in 1..Len(rs) |-> rs[CHOOSE i \in 1..Len(rs) : place(i) = k]]

\* The loop over sorted_results that collects the winners.
RECURSIVE WinnersLoop(_, _, _, _)
WinnersLoop(sorted_results, winners, cutoff_score, limit) ==
    IF sorted_results = <<>> THEN winners
    ELSE LET res == Head(sorted_results)
             score == res.similarity_score
         IN IF winners = <<>> \/ Len(winners) < limit
            THEN WinnersLoop(Tail(sorted_results), Append(winners, res), score, limit)
            ELSE IF cutoff_score # NULL /\ score = cutoff_score
            THEN WinnersLoop(Tail(sorted_results), Append(winners, res),
                             cutoff_score, limit)
            ELSE winners

\* The limit= values: None, a negative number, 0 and the positive ones.
NegativeLimit == -2

\* _rank_prize_draw_results_with_ties without ties: the first `limit` rows.
RankWithoutTies(rs, limit) ==
    IF limit = NegativeLimit THEN [raised |-> TRUE, ret |-> <<>>]
    ELSE IF \E i \in 1..Len(rs) : rs[i].similarity_score = NULL
    THEN [raised |-> TRUE, ret |-> <<>>]
    ELSE IF limit = NULL THEN [raised |-> FALSE, ret |-> SortedResults(rs)]
    ELSE IF limit = 0 THEN [raised |-> FALSE, ret |-> <<>>]
    ELSE [raised |-> FALSE,
          ret |-> SubSeq(SortedResults(rs), 1,
                         IF Len(rs) < limit THEN Len(rs) ELSE limit)]

\* _rank_prize_draw_results_with_ties
RankWithTies(rs, limit) ==
    IF limit = NegativeLimit THEN [raised |-> TRUE, ret |-> <<>>]
    ELSE IF \E i \in 1..Len(rs) : rs[i].similarity_score = NULL
    THEN [raised |-> TRUE, ret |-> <<>>]
    ELSE IF limit = NULL THEN [raised |-> FALSE, ret |-> SortedResults(rs)]
    ELSE IF limit = 0 THEN [raised |-> FALSE, ret |-> <<>>]
    ELSE [raised |-> FALSE,
          ret |-> WinnersLoop(SortedResults(rs), <<>>, NULL, limit)]

\* The scores and evaluation times of the rows handed to the ranking.
RankScores == {NULL, 800, 900}

RankTimes == {0, 1}

\* The input lists: rows with ids 1..n in every order.
RankInputs ==
    UNION {{rs \in [1..n -> [id : 1..n, similarity_score : RankScores,
                            evaluated_at : RankTimes]] :
                \A i, j \in 1..n : i # j => rs[i].id # rs[j].id}
           : n \in 0..MaxRankRows}

RankLimits == {NULL, NegativeLimit} \cup (0..MaxRankRows)

\* The caller holds a list of results and a limit.
InitRank ==
    /\ ownerships = {}
    /\ cards = <<>>
    /\ winningNumbers = <<>>
    /\ results = <<>>
    /\ now = 0
    /\ sessions = NoSessions
    /\ registry = EmptyRegistry
    /\ \E rs \in RankInputs, limit \in RankLimits :
          lastCall = [op |-> "none", raised |-> FALSE, ret |-> <<>>,
                      args |-> <<rs, limit>>, again |-> FALSE]

\* A call of _rank_prize_draw_results_with_ties on the held arguments.
RankCall ==
    /\ lastCall.op = "none"
    /\ LET r == RankWithTies(lastCall.args[1], lastCall.args[2])
       IN lastCall' = [lastCall EXCEPT !.op = "rank_with_ties",
                                       !.raised = r.raised, !.ret = r.ret]
    /\ UNCHANGED <<ownerships, cards, winningNumbers, results, now, sessions, registry>>

NextRank == RankCall

SpecRank == InitRank /\ [][NextRank]_vars

\* ------------------------------------------------------------ grid actions
Bool(b) == IF b THEN 1 ELSE 0

\* A UserNFTOwnership row is created for (user, definition); uq_user_nft
\* allows one per pair.
Acquire(u, d) ==
    /\ OwnershipOf(ownerships, u, d).id = NULL
    /\ ownerships' = ownerships \cup
            {[id |-> OwnershipId(u, d), user_id |-> u, nft_id |-> d,
              nft_origin |-> IssuedOrigin]}
    /\ lastCall' = [op |-> "acquire", raised |-> FALSE,
                    ret |-> OwnershipId(u, d), args |-> <<u, d>>,
                    again |-> FALSE]
    /\ UNCHANGED <<cards, winningNumbers, results>>

\* BingoCard.generate_for_user
GenerateForUser(u, center, excluded, included, state) ==
    /\ Len(cards) < MaxCards
    /\ LET candidate_ids == Candidates(center, excluded, included)
       IN IF Cardinality(candidate_ids) < 8
          THEN /\ UNCHANGED cards
               /\ lastCall' = [op |-> "generate_for_user", raised |-> TRUE,
                               ret |-> NULL,
                               args |-> <<u, center, excluded, included>>,
                               again |-> FALSE]
          ELSE \E selected_ids \in Samples(candidate_ids), positions \in Shuffles :
                  /\ cards' = Append(cards,
                        NewCard(ownerships, Len(cards) + 1, u, center, state,
                                selected_ids, positions, now))
                  /\ lastCall' = [op |-> "generate_for_user", raised |-> FALSE,
                                  ret |-> Len(cards) + 1,
                                  args |-> <<u, center, excluded, included>>,
                                  again |-> FALSE]
    /\ UNCHANGED <<ownerships, winningNumbers, results>>

\* BingoCard.unlock_cells_for_ownership
UnlockCellsForOwnership(c, ownership) ==
    LET r == UnlockCard(cards[c], ownership, now)
    IN /\ cards' = [cards EXCEPT ![c] = r.card]
       /\ lastCall' = [op |-> "unlock_cells_for_ownership", raised |-> FALSE,
                       ret |-> Bool(r.unlocked_any),
                       args |-> <<c, ownership.id>>,
                       again |-> /\ lastCall.op = "unlock_cells_for_ownership"
                                 /\ lastCall.args = <<c, ownership.id>>]
       /\ UNCHANGED <<ownerships, winningNumbers, results>>

\* User.unlock_bingo_cells
UnlockBingoCells(u, ownership) ==
    LET r == UnlockUserCards(cards, u, ownership, now)
    IN /\ cards' = r.cards
       /\ lastCall' = [op |-> "unlock_bingo_cells", raised |-> FALSE,
                       ret |-> Bool(r.unlocked_any),
                       args |-> <<u, ownership.id>>, again |-> FALSE]
       /\ UNCHANGED <<ownerships, winningNumbers, results>>

\* User.unlock_cells_for_nft
UnlockCellsForNft(u, nft) ==
    LET ownership == OwnershipOf(ownerships, u, nft)
        r == UnlockUserCards(cards, u, ownership, now)
    IN /\ IF ownership.id = NULL
          THEN /\ UNCHANGED cards
               /\ lastCall' = [op |-> "unlock_cells_for_nft", raised |-> FALSE,
                               ret |-> 0, args |-> <<u, nft>>, again |-> FALSE]
          ELSE /\ cards' = r.cards
               /\ lastCall' = [op |-> "unlock_cells_for_nft", raised |-> FALSE,
                               ret |-> Bool(r.unlocked_any), args |-> <<u, nft>>,
                               again |-> FALSE]
       /\ UNCHANGED <<ownerships, winningNumbers, results>>

\* User.ensure_bingo_cells
EnsureBingoCells(u) ==
    LET mine(c) == cards[c].user_id = u /\ cards[c].state = "active"
        unlocked == SumSeq([c \in 1..Len(cards) |->
                        IF mine(c) THEN EnsureCard(ownerships, cards[c], now).unlocked
                        ELSE 0])
    IN /\ cards' = [c \in 1..Len(cards) |->
                      IF mine(c) THEN EnsureCard(ownerships, cards[c], now).card
                      ELSE cards[c]]
       /\ lastCall' = [op |-> "ensure_bingo_cells", raised |-> FALSE,
                       ret |-> unlocked, args |-> <<u>>, again |-> FALSE]
       /\ UNCHANGED <<ownerships, winningNumbers, results>>

\* The card is expired and loaded again: its cells come back ordered by idx.
Reload(c) ==
    /\ cards[c].cells # CellsByIdx(cards[c].cells)
    /\ cards' = [cards EXCEPT ![c].cells = CellsByIdx(@)]
    /\ lastCall' = [op |-> "reload", raised |-> FALSE, ret |-> NULL,
                    args |-> <<c>>, again |-> FALSE]
    /\ UNCHANGED <<ownerships, winningNumbers, results>>

\* The clock moves with every call of the grid scenarios.
GridClock ==
    /\ now < MaxGridTime
    /\ now' = now + 1
    /\ UNCHANGED <<sessions, registry>>

\* The clock of the ensure scenario.
EnsureClock ==
    /\ now < MaxEnsureTime
    /\ now' = now + 1
    /\ UNCHANGED <<sessions, registry>>

\* What a user may hold before the first card is generated.
InitialHoldings == {{}, {1}, 1..8, 1..9}

HoldingRows(u, held) ==
    {[id |-> OwnershipId(u, d), user_id |-> u, nft_id |-> d,
      nft_origin |-> IssuedOrigin] : d \in held}

\* The definitions the calls are made with: the centre and a target.
CalledDefs == {1, 9}

CalledOwnerships == {o \in ownerships : o.nft_id \in CalledDefs}

\* The centre definitions, pools and states generate_for_user is called with.
Centers == {1, 2}

PoolChoices ==
    {[excluded |-> {}, included |-> {}],
     [excluded |-> {2}, included |-> {}],
     [excluded |-> {}, included |-> 1..9],
     [excluded |-> {3}, included |-> 1..9]}

CardStates == {"active", "expired"}

InitGrid ==
    /\ \E held \in InitialHoldings : ownerships = HoldingRows(1, held)
    /\ cards = <<>>
    /\ winningNumbers = <<>>
    /\ results = <<>>
    /\ now = 0
    /\ sessions = NoSessions
    /\ registry = EmptyRegistry
    /\ lastCall = [op |-> "none", raised |-> FALSE, ret |-> NULL,
                   args |-> <<>>, again |-> FALSE]

NextGrid ==
    \/ GridClock /\ \E u \in Users, d \in CalledDefs : Acquire(u, d)
    \/ GridClock /\ \E u \in Users, center \in Centers, pool \in PoolChoices,
                       state \in CardStates :
            GenerateForUser(u, center, pool.excluded, pool.included, state)
    \/ GridClock /\ \E o \in CalledOwnerships : DeleteOwnership(o)
    \/ GridClock /\ \E c \in 1..Len(cards), o \in CalledOwnerships :
            UnlockCellsForOwnership(c, o)
    \/ GridClock /\ \E u \in Users, o \in CalledOwnerships : UnlockBingoCells(u, o)
    \/ GridClock /\ \E u \in Users, d \in CalledDefs : UnlockCellsForNft(u, d)
    \/ GridClock /\ \E u \in Users : EnsureBingoCells(u)
    \/ GridClock /\ \E c \in 1..Len(cards) : Reload(c)

SpecGrid == InitGrid /\ [][NextGrid]_vars

\* ------------------------------------------------------ generation scenario
\* What the second user holds when the cards are generated.
OtherHoldings == {{}, {1, 9}}

\* The excluded and included definitions of the generation calls.
GenerateExcluded == {{}, {2}, {2, 3}, {1, 10}}

GenerateIncluded == {{}, 1..9, 2..10, 1..8}

InitGenerate ==
    /\ \E held \in InitialHoldings, other \in OtherHoldings :
          ownerships = HoldingRows(1, held) \cup HoldingRows(2, other)
    /\ cards = <<>>
    /\ winningNumbers = <<>>
    /\ results = <<>>
    /\ now = 0
    /\ sessions = NoSessions
    /\ registry = EmptyRegistry
    /\ lastCall = [op |-> "none", raised |-> FALSE, ret |-> NULL,
                   args |-> <<>>, again |-> FALSE]

\* Users acquire badges and cards are generated from every pool.
NextGenerate ==
    \/ GridClock /\ \E u \in Users, d \in CalledDefs : Acquire(u, d)
    \/ GridClock /\ \E u \in Users, center \in Centers,
                       excluded \in GenerateExcluded,
                       included \in GenerateIncluded, state \in CardStates :
            GenerateForUser(u, center, excluded, included, state)

SpecGenerate == InitGenerate /\ [][NextGenerate]_vars

\* --------------------------------------------------------- ensure scenario
\* The definitions flagged triggers_bingo_card.
TriggerDefs == {1, 2}

\* ensure_bingo_cards: the templates the user owns that trigger a card.
TriggeringTemplates(owns, u) ==
    {d \in TriggerDefs : OwnershipOf(owns, u, d).id # NULL}

\* The `exists` query without BingoCard.user_id == self.id.
HasCenteredCardOfAnyUser(cs, u, tpl) ==
    \E c \in 1..Len(cs) : \E k \in 1..Len(cs[c].cells) :
        /\ cs[c].cells[k].idx = 4
        /\ cs[c].cells[k].target_template_id = tpl

\* ensure_bingo_cards: the `exists` query, a card of the user whose cell 4
\* targets the template.
HasCenteredCard(cs, u, tpl) ==
    \E c \in 1..Len(cs) :
        /\ cs[c].user_id = u
        /\ \E k \in 1..Len(cs[c].cells) :
              /\ cs[c].cells[k].idx = 4
              /\ cs[c].cells[k].target_template_id = tpl

\* ensure_bingo_cards: the loop over the triggering templates; the outcomes
\* [cards, created] it can end with, one per draw of the rng.
RECURSIVE EnsureCardsLoop(_, _, _, _, _, _)
EnsureCardsLoop(cs, created, owns, u, tpls, at) ==
    IF tpls = <<>> THEN {[cards |-> cs, created |-> created]}
    ELSE IF HasCenteredCard(cs, u, Head(tpls))
    THEN EnsureCardsLoop(cs, created, owns, u, Tail(tpls), at)
    ELSE UNION {EnsureCardsLoop(
                    Append(cs, NewCard(owns, Len(cs) + 1, u, Head(tpls),
                                       "active", selected_ids, positions, at)),
                    created + 1, owns, u, Tail(tpls), at) :
                selected_ids \in Samples(Candidates(Head(tpls), {}, {})),
                positions \in Shuffles}

\* User.ensure_bingo_cards
EnsureBingoCards(u) ==
    /\ Len(cards) + Cardinality({d \in TriggeringTemplates(ownerships, u) :
                                    ~HasCenteredCard(cards, u, d)})
          <= MaxEnsureCards
    /\ \E out \in EnsureCardsLoop(cards, 0, ownerships, u,
                     SetToSeq(TriggeringTemplates(ownerships, u)), now) :
          /\ cards' = out.cards
          /\ lastCall' = [op |-> "ensure_bingo_cards", raised |-> FALSE,
                          ret |-> out.created, args |-> <<u>>,
                          again |-> /\ lastCall.op = "ensure_bingo_cards"
                                    /\ lastCall.args = <<u>>]
    /\ UNCHANGED <<ownerships, winningNumbers, results>>

\* What the users hold before the first call.
EnsureHoldings == {{}, {1}, {1, 2}, 1..8, 1..9}

\* The definitions acquired between the calls.
EnsureDefs == {1, 2, 9}

InitEnsure ==
    /\ \E held \in EnsureHoldings, other \in OtherHoldings :
          ownerships = HoldingRows(1, held) \cup HoldingRows(2, other)
    /\ cards = <<>>
    /\ winningNumbers = <<>>
    /\ results = <<>>
    /\ now = 0
    /\ sessions = NoSessions
    /\ registry = EmptyRegistry
    /\ lastCall = [op |-> "none", raised |-> FALSE, ret |-> NULL,
                   args |-> <<>>, again |-> FALSE]

\* Users acquire badges, cards are generated by hand or ensured, and the
\* cells are reconciled.
NextEnsure ==
    \/ EnsureClock /\ \E u \in Users, d \in EnsureDefs : Acquire(u, d)
    \/ EnsureClock /\ \E u \in Users, center \in Centers, state \in CardStates :
            GenerateForUser(u, center, {}, {}, state)
    \/ EnsureClock /\ \E u \in Users : EnsureBingoCards(u)
    \/ EnsureClock /\ \E u \in Users : EnsureBingoCells(u)

SpecEnsure == InitEnsure /\ [][NextEnsure]_vars

\* ------------------------------------------------------ bingo prize draw
\* cells_by_idx.get(idx) of _instances_in_completed_bingo_lines.
CellsByIdxGet(card, idx) ==
    CHOOSE cell \in Range(card.cells) : cell.idx = idx

\* cell.matched_nft_instance: the row the cell's foreign key points to.
MatchedInstanceId(owns, cell) ==
    IF \E o \in owns : o.id = cell.matched_ownership_id
    THEN cell.matched_ownership_id
    ELSE NULL

\* The ids appended to `eligible` for one card: for each line reported by
\* completed_lines, the matched instances of the cells with the line's idx.
LineInstanceIds(owns, card) ==
    LET lines == completed_lines(card)
    IN SelectSeq([n \in 1..(3 * Len(lines)) |->
                     MatchedInstanceId(owns,
                         CellsByIdxGet(card,
                             lines[((n - 1) \div 3) + 1][((n - 1) % 3) + 1]))],
                 LAMBDA id : id # NULL)

RECURSIVE Concat(_)
Concat(ss) == IF ss = <<>> THEN <<>> ELSE Head(ss) \o Concat(Tail(ss))

\* workflows._unique_instances_preserve_insertion
RECURSIVE UniquePreserveInsertion(_, _)
UniquePreserveInsertion(ids, unique) ==
    IF ids = <<>> THEN unique
    ELSE IF Head(ids) \in Range(unique)
    THEN UniquePreserveInsertion(Tail(ids), unique)
    ELSE UniquePreserveInsertion(Tail(ids), Append(unique, Head(ids)))

\* workflows._instances_in_completed_bingo_lines
InstancesInCompletedBingoLines(cs, owns) ==
    LET ids == UniquePreserveInsertion(
                   Concat([c \in 1..Len(cs) |-> LineInstanceIds(owns, cs[c])]),
                   <<>>)
    IN [i \in 1..Len(ids) |-> CHOOSE o \in owns : o.id = ids[i]]

\* The value of the winning numbers submitted.
BingoWinningValue == <<"a", "b">>

\* The limits run_bingo_prize_draw is called with.
BingoLimits == {NULL, 1}

\* workflows.run_bingo_prize_draw
RunBingoPrizeDraw(draw_type, winning_number, threshold, limit) ==
    /\ \E eligible_instances \in
             {InstancesInCompletedBingoLines(cards, ownerships)} :
          IF eligible_instances = <<>>
          THEN /\ UNCHANGED results
               /\ lastCall' = [op |-> "run_bingo_prize_draw", raised |-> FALSE,
                               ret |-> <<>>,
                               args |-> <<draw_type.id, winning_number.id,
                                          threshold, limit>>,
                               again |-> FALSE]
          ELSE \E b \in {RunBatch(results, winningNumbers, draw_type,
                                  winning_number, eligible_instances,
                                  threshold, now)} :
                  \E ranked \in {RankWithTies([i \in 1..Len(b.ret) |->
                                                  b.results[b.ret[i]]], limit)} :
                     /\ results' = b.results
                     /\ lastCall' = [op |-> "run_bingo_prize_draw",
                                     raised |-> b.raised \/ ranked.raised,
                                     ret |-> IF b.raised THEN <<>>
                                             ELSE ranked.ret,
                                     args |-> <<draw_type.id, winning_number.id,
                                                threshold, limit>>,
                                     again |-> FALSE]
    /\ UNCHANGED <<ownerships, cards, winningNumbers>>

\* The clock of the bingo draw scenario.
BingoDrawClock ==
    /\ now < MaxBingoDrawTime
    /\ now' = now + 1
    /\ UNCHANGED <<sessions, registry>>

\* What the two users hold when the scenario starts.
BingoHoldings == {{}, {1, 3, 5, 6}}

BingoOtherHoldings == {{}, {1, 2, 9}}

InitBingoDraw ==
    /\ \E held \in BingoHoldings, other \in BingoOtherHoldings :
          ownerships = HoldingRows(1, held) \cup HoldingRows(2, other)
    /\ cards = <<>>
    /\ winningNumbers = <<>>
    /\ results = <<>>
    /\ now = 0
    /\ sessions = NoSessions
    /\ registry = EmptyRegistry
    /\ lastCall = [op |-> "none", raised |-> FALSE, ret |-> NULL,
                   args |-> <<>>, again |-> FALSE]

\* Cards are ensured for the users and reloaded, winning numbers submitted and
\* the draw run over the completed lines.
NextBingoDraw ==
    \/ BingoDrawClock /\ \E u \in Users : EnsureBingoCards(u)
    \/ BingoDrawClock /\ \E c \in 1..Len(cards) : Reload(c)
    \/ BingoDrawClock /\ \E dt \in DrawTypeRows :
            SubmitWinningNumber(dt, BingoWinningValue)
    \/ BingoDrawClock /\ \E dt \in DrawTypeRows, limit \in BingoLimits,
                            wn \in Range(winningNumbers) \cup {NoWinningNumber} :
            RunBingoPrizeDraw(dt, wn, NULL, limit)

SpecBingoDraw == InitBingoDraw /\ [][NextBingoDraw]_vars

\* --------------------------------------------------- evaluation scenario
\* A PrizeDrawWinningNumber object that was never flushed: it has a value and
\* no id.
UnpersistedWinningNumber ==
    [id |-> NULL, draw_type_id |-> 1, value |-> <<"a", "b">>,
     created_at |-> NULL]

\* evaluate is called with stored winning numbers, with none and with one
\* that is not stored.
NextEvaluate ==
    \/ DrawClock /\ \E dt \in DrawTypeRows, v \in WinningValues :
            SubmitWinningNumber(dt, v)
    \/ DrawClock /\ \E i \in ownerships, dt \in DrawTypeRows,
                       wn \in Range(winningNumbers)
                              \cup {NoWinningNumber, UnpersistedWinningNumber},
                       t \in ThresholdOverrides :
            Evaluate(i, dt, wn, t)

SpecEvaluate == InitDraw /\ [][NextEvaluate]_vars

\* ------------------------------------------------------------ claims: draw
EvaluateOps == {"evaluate", "run_prize_draw"}

\* The rows of the instance and draw type a call names.
RowsOf(rs, instance_id, draw_type_id) ==
    {i \in 1..Len(rs) : /\ rs[i].instance_id = instance_id
                        /\ rs[i].draw_type_id = draw_type_id}

\* C1: after any sequence of evaluate / run_prize_draw calls there is at most
\* one result row per (evaluated instance, draw type): a re-evaluation updates
\* the row in place and never inserts a second one.
C1_OneRowPerInstanceAndType ==
    /\ \A i, j \in 1..Len(results) :
          (/\ i # j
           /\ results[i].instance_id # NULL
           /\ results[i].instance_id = results[j].instance_id)
          => results[i].draw_type_id # results[j].draw_type_id
    /\ (lastCall.op \in EvaluateOps /\ ~lastCall.raised)
          => RowsOf(results, lastCall.args[1], lastCall.args[2]) = {lastCall.ret}

\* Witness of C1: a successful re-evaluation met its own earlier row while
\* rows of other instances or draw types exist.
C1_Witness ==
    /\ lastCall.op \in EvaluateOps
    /\ ~lastCall.raised
    /\ lastCall.again
    /\ Len(results) >= 2

\* The row a successful evaluate without a winning number returns.
C4_PendingRow ==
    (/\ lastCall.op = "evaluate"
     /\ ~lastCall.raised
     /\ lastCall.args[3] = NULL)
    => /\ lastCall.ret \in 1..Len(results)
       /\ results[lastCall.ret].outcome = "pending"
       /\ results[lastCall.ret].similarity_score = NULL
       /\ results[lastCall.ret].winning_number_id = NULL

\* An evaluate with a winning number that meets a pending row of its instance
\* and draw type.
C4_LaterWinningNumberStep ==
    \A r \in 1..Len(results) :
        (/\ lastCall'.op = "evaluate"
         /\ ~lastCall'.raised
         /\ lastCall'.args[3] # NULL
         /\ results[r].winning_number_id = NULL
         /\ results[r].outcome = "pending"
         /\ results[r].instance_id = lastCall'.args[1]
         /\ results[r].draw_type_id = lastCall'.args[2])
        => /\ lastCall'.ret = r
           /\ Len(results') = Len(results)
           /\ results'[r].id = results[r].id
           /\ results'[r].winning_number_id = lastCall'.args[3]
           /\ results'[r].similarity_score \in 0..ScoreScale
           /\ results'[r].outcome =
                 IF results'[r].threshold_used = NULL THEN "pending"
                 ELSE IF results'[r].similarity_score >= results'[r].threshold_used
                 THEN "win" ELSE "lose"

\* C4: evaluate without a winning number stores and returns a pending row
\* with null score and null winning number; a later evaluate of the same
\* instance and draw type with a winning number updates that same row (same
\* id, no new row) with the score and the win / lose / pending outcome.
C4_PendingThenScored ==
    [](C4_PendingRow) /\ [][C4_LaterWinningNumberStep]_vars

\* Witness of C4: a row first stored pending was scored by a later evaluate
\* with a winning number and is now win or lose.
C4_Witness ==
    /\ lastCall.op = "evaluate"
    /\ ~lastCall.raised
    /\ lastCall.again
    /\ lastCall.args[3] # NULL
    /\ results[lastCall.ret].outcome \in {"win", "lose"}

\* An evaluation of instance B while row r of another instance of B's
\* definition exists for the draw type.
C5_ConflictStep ==
    \A r \in 1..Len(results) :
        (/\ lastCall'.op \in EvaluateOps
         /\ lastCall'.args[1] # NULL
         /\ results[r].instance_id # NULL
         /\ results[r].instance_id # lastCall'.args[1]
         /\ results[r].draw_type_id = lastCall'.args[2]
         /\ \E b \in ownerships : /\ b.id = lastCall'.args[1]
                                  /\ b.nft_id = results[r].definition_id)
        => /\ lastCall'.raised
           /\ results' = results

\* C5: when a result exists for (definition D, draw type T) that belongs to
\* instance A, evaluating another instance B of D against T raises and leaves
\* the result table as it was (A's row unchanged, no row for B).
C5_ConflictRaises == [][C5_ConflictStep]_vars

\* Witness of C5: the evaluation of a well-formed instance was refused while
\* another instance of its definition holds the row of that draw type.
C5_Witness ==
    /\ lastCall.op \in EvaluateOps
    /\ lastCall.raised
    /\ \E b \in ownerships, r \in 1..Len(results) :
          /\ b.id = lastCall.args[1]
          /\ derive_draw_number(b.nft_origin).ok
          /\ results[r].definition_id = b.nft_id
          /\ results[r].draw_type_id = lastCall.args[2]
          /\ results[r].instance_id \notin {NULL, b.id}

\* The draw type row of an id.
DrawTypeOf(id) == CHOOSE dt \in DrawTypeRows : dt.id = id

\* The threshold a call resolves to: its override if given, else the default.
ResolvedThreshold(draw_type_id, threshold) ==
    IF threshold # NULL THEN threshold
    ELSE DrawTypeOf(draw_type_id).default_threshold

\* The row a successful evaluation with a winning number returns.
C12_ScoredRow ==
    (/\ lastCall.op \in EvaluateOps
     /\ ~lastCall.raised
     /\ lastCall.args[3] # NULL)
    => LET row == results[lastCall.ret]
           resolved == ResolvedThreshold(lastCall.args[2], lastCall.args[4])
       IN /\ row.threshold_used = resolved
          /\ row.similarity_score \in 0..ScoreScale
          /\ row.similarity_score =
                Sha256HexSimilarity(row.draw_number,
                    winningNumbers[lastCall.args[3]].value).score
          /\ row.outcome = IF resolved = NULL THEN "pending"
                           ELSE IF row.similarity_score >= resolved THEN "win"
                           ELSE "lose"

\* A re-evaluation of a lost row against the same winning number with an
\* override the score reaches.
C12_LowerOverrideStep ==
    \A r \in 1..Len(results) :
        (/\ lastCall'.op \in EvaluateOps
         /\ ~lastCall'.raised
         /\ results[r].outcome = "lose"
         /\ results[r].instance_id = lastCall'.args[1]
         /\ results[r].draw_type_id = lastCall'.args[2]
         /\ results[r].winning_number_id = lastCall'.args[3]
         /\ lastCall'.args[4] # NULL
         /\ lastCall'.args[4] <= results[r].similarity_score)
        => /\ lastCall'.ret = r
           /\ Len(results') = Len(results)
           /\ results'[r].outcome = "win"
           /\ results'[r].similarity_score = results[r].similarity_score
           /\ results'[r].threshold_used = lastCall'.args[4]

\* C12: with a winning number the stored outcome follows from the score and
\* the resolved threshold (the override if given, 0.0 included, else the draw
\* type's default): pending without a threshold, win if score >= threshold,
\* lose otherwise; threshold_used is the resolved threshold, and a lower
\* override turns a lost row into a won one in place, with the same score.
C12_OutcomeFollowsThreshold ==
    [](C12_ScoredRow) /\ [][C12_LowerOverrideStep]_vars

C12_Witness ==
    /\ lastCall.op \in EvaluateOps
    /\ ~lastCall.raised
    /\ lastCall.again
    /\ lastCall.args[4] = 0
    /\ DrawTypeOf(lastCall.args[2]).default_threshold # NULL
    /\ results[lastCall.ret].outcome = "win"
    /\ results[lastCall.ret].threshold_used = 0
    /\ results[lastCall.ret].similarity_score
          < DrawTypeOf(lastCall.args[2]).default_threshold

\* C11 as written: the scorer gives 1.0 whenever the draw number and the
\* winning value are the same string.
C11_IdenticalScoresOne ==
    (lastCall.op = "sha256_hex_proximity" /\ lastCall.args[1] = lastCall.args[2])
        => lastCall.ret = ScoreScale

\* C11 amended: for the same string on both sides the scorer gives
\* (0.6 - 0) * 1.5 = 0.9, which is also the greatest score it ever gives.
C11_IdenticalScoresNineTenths ==
    lastCall.op = "sha256_hex_proximity" =>
        /\ lastCall.ret <= (9 * ScoreScale) \div 10
        /\ lastCall.args[1] = lastCall.args[2]
              => lastCall.ret = (9 * ScoreScale) \div 10

C11_Witness ==
    /\ lastCall.op = "sha256_hex_proximity"
    /\ lastCall.args[1] = lastCall.args[2]
    /\ Len(lastCall.args[1]) = MaxStrLen
    /\ lastCall.ret = (9 * ScoreScale) \div 10

\* ------------------------------------------------------ collecting scenario
\* A user who owns only the centre gets a card over the nine definitions of
\* CollectPool and then acquires the other eight one at a time, in any order;
\* every acquisition is followed by unlock_cells_for_nft for it.
CollectPool == 1..9

CollectUser == 1

CollectCenter == 1

\* The acquired definition whose unlock call is still to come.
PendingUnlock ==
    {d \in CollectPool :
        /\ OwnershipOf(ownerships, CollectUser, d).id # NULL
        /\ \E c \in 1..Len(cards), k \in 1..9 :
              /\ cards[c].cells[k].target_template_id = d
              /\ cards[c].cells[k].state = "locked"}

InitCollect ==
    /\ ownerships = HoldingRows(CollectUser, {CollectCenter})
    /\ cards = <<>>
    /\ winningNumbers = <<>>
    /\ results = <<>>
    /\ now = 0
    /\ sessions = NoSessions
    /\ registry = EmptyRegistry
    /\ lastCall = [op |-> "none", raised |-> FALSE, ret |-> NULL,
                   args |-> <<>>, again |-> FALSE]

NextCollect ==
    \/ /\ cards = <<>>
       /\ GenerateForUser(CollectUser, CollectCenter, {}, CollectPool, "active")
       /\ UNCHANGED <<now, sessions, registry>>
    \/ /\ cards # <<>>
       /\ PendingUnlock = {}
       /\ \E d \in CollectPool : Acquire(CollectUser, d)
       /\ UNCHANGED <<now, sessions, registry>>
    \/ /\ \E d \in PendingUnlock : UnlockCellsForNft(CollectUser, d)
       /\ UNCHANGED <<now, sessions, registry>>

SpecCollect == InitCollect /\ [][NextCollect]_vars

\* ------------------------------------------------------------ claims: grid
UnlockedCount(card) ==
    Cardinality({k \in 1..Len(card.cells) : card.cells[k].state = "unlocked"})

CellAt(card, idx) ==
    card.cells[CHOOSE k \in 1..Len(card.cells) : card.cells[k].idx = idx]

\* C2: a card is 'completed' with completed_at set exactly when all 9 of its
\* cells are unlocked, whichever way it got there (expired cards left aside).
C2_CompletedIffAllUnlocked ==
    \A c \in 1..Len(cards) :
        cards[c].state # "expired" =>
            ((cards[c].state = "completed" /\ cards[c].completed_at # NULL)
                <=> AllUnlocked(cards[c].cells))

\* C3: every generated card has exactly 9 cells with idx 0..8, each once,
\* pairwise distinct targets, and the requested centre at idx 4.
C3_NineDistinctCells ==
    /\ \A c \in 1..Len(cards) :
          /\ Len(cards[c].cells) = 9
          /\ \A i \in 0..8 :
                Cardinality({k \in 1..9 : cards[c].cells[k].idx = i}) = 1
          /\ Cardinality({cards[c].cells[k].target_template_id : k \in 1..9}) = 9
    /\ (lastCall.op = "generate_for_user" /\ ~lastCall.raised) =>
          CellAt(cards[lastCall.ret], 4).target_template_id = lastCall.args[2]

C3_Witness ==
    /\ lastCall.op = "generate_for_user"
    /\ ~lastCall.raised
    /\ lastCall.args[2] = 2
    /\ \E k \in 1..9 : cards[lastCall.ret].cells[k].target_template_id = NumDefs
    /\ cards[lastCall.ret].cells[2].idx # 0

\* A call of unlock_cells_for_ownership that repeats the call before it.
C6_SecondUnlockStep ==
    (lastCall'.op = "unlock_cells_for_ownership" /\ lastCall'.again) =>
        /\ lastCall'.ret = 0
        /\ cards' = cards
        /\ ownerships' = ownerships

\* C6: a second unlock_cells_for_ownership with the same ownership on the
\* same card returns False and changes no card and no ownership.
C6_SecondUnlockIsNoOp == [][C6_SecondUnlockStep]_vars

C6_Witness ==
    /\ lastCall.op = "unlock_cells_for_ownership"
    /\ lastCall.again
    /\ lastCall.ret = 0
    /\ \E k \in 1..9 :
          /\ cards[lastCall.args[1]].cells[k].matched_ownership_id = lastCall.args[2]
          /\ cards[lastCall.args[1]].cells[k].unlocked_at = now - 2
          /\ cards[lastCall.args[1]].issued_at < now - 2

\* What a step may do to the cards that are completed.
C7_CompletedStep ==
    \A c \in 1..Len(cards) :
        /\ cards[c].completed_at # NULL =>
              cards'[c].completed_at = cards[c].completed_at
        /\ cards[c].state = "completed" => cards'[c].state = "completed"

\* C7: once completed_at is set it keeps its value, and a completed card
\* stays completed, whatever is called afterwards.
C7_CompletionIsFinal == [][C7_CompletedStep]_vars

C7_Witness ==
    \E c \in 1..Len(cards) :
        /\ cards[c].state = "completed"
        /\ cards[c].completed_at # NULL
        /\ cards[c].completed_at > cards[c].issued_at
        /\ now >= cards[c].completed_at + 2
        /\ lastCall.op \in {"unlock_cells_for_ownership", "ensure_bingo_cells",
                            "delete_ownership"}

\* C8: the card of a user who owned only the centre stays active, with
\* completed_at unset, while fewer than 9 cells are unlocked, and is completed
\* by the very call that unlocks the ninth.
C8_CompletesOnLastAcquisition ==
    \A c \in 1..Len(cards) :
        /\ UnlockedCount(cards[c]) < 9 =>
              cards[c].state = "active" /\ cards[c].completed_at = NULL
        /\ UnlockedCount(cards[c]) = 9 =>
              cards[c].state = "completed" /\ cards[c].completed_at # NULL
        /\ UnlockedCount(cards[c]) + Cardinality(PendingUnlock)
              = Cardinality(ownerships)

C8_Witness ==
    /\ cards # <<>>
    /\ cards[1].state = "completed"
    /\ lastCall.op = "unlock_cells_for_nft"
    /\ lastCall.ret = 1
    /\ lastCall.args = <<CollectUser, 5>>
    /\ Cardinality(ownerships) = 9

\* C9: a cell is unlocked exactly when its matched_ownership_id is set, also
\* after the ownership it was matched to is removed.
C9_UnlockedIffMatched ==
    \A c \in 1..Len(cards) : \A k \in 1..Len(cards[c].cells) :
        (cards[c].cells[k].state = "unlocked")
            <=> (cards[c].cells[k].matched_ownership_id # NULL)

\* C10: completed_lines returns exactly the winning lines whose three cells,
\* looked up by idx, are all unlocked, also on a card that was just generated.
C10_CompletedLinesByIdx ==
    \A c \in 1..Len(cards) :
        Range(completed_lines(cards[c]))
            = {line \in Range(WinningLines) :
                  \A k \in 1..3 : CellAt(cards[c], line[k]).state = "unlocked"}

\* --------------------------------------------------------- claims: ranking
\* Row a ranks strictly before row b: score descending, then evaluated_at
\* ascending, then id ascending.
RanksBefore(a, b) ==
    \/ a.similarity_score > b.similarity_score
    \/ a.similarity_score = b.similarity_score /\ a.evaluated_at < b.evaluated_at
    \/ /\ a.similarity_score = b.similarity_score
       /\ a.evaluated_at = b.evaluated_at
       /\ a.id < b.id

\* out is a prefix of the list rs sorted by RanksBefore.
IsRankedPrefix(out, rs) ==
    /\ \A i \in 1..Len(out) : out[i] \in Range(rs)
    /\ \A i, j \in 1..Len(out) : i < j => RanksBefore(out[i], out[j])
    /\ \A r \in Range(rs) \ Range(out) : \A i \in 1..Len(out) : RanksBefore(out[i], r)

\* C13: _rank_prize_draw_results_with_ties returns a prefix of its input sorted
\* by (score descending, evaluated_at ascending, id ascending): the whole
\* sorted list without a limit, the empty list for limit 0, and for a limit
\* k > 0 the first min(k, n) entries followed by exactly the further entries
\* whose score equals the score of the k-th entry.
C13_RankedPrefixWithTies ==
    (lastCall.op = "rank_with_ties" /\ ~lastCall.raised) =>
        LET rs == lastCall.args[1]
            limit == lastCall.args[2]
            out == lastCall.ret
            m == IF Len(rs) < limit THEN Len(rs) ELSE limit
        IN /\ IsRankedPrefix(out, rs)
           /\ limit = NULL => Len(out) = Len(rs)
           /\ limit = 0 => out = <<>>
           /\ limit > 0 =>
                 /\ Len(out) >= m
                 /\ m > 0 => \A r \in Range(rs) :
                       r \in Range(out) <=> r.similarity_score >= out[m].similarity_score

\* One row at 0.9 and two at 0.8, in any order, with limit 2: all three are
\* returned.
C13_Witness ==
    /\ lastCall.op = "rank_with_ties"
    /\ ~lastCall.raised
    /\ lastCall.args[2] = 2
    /\ Len(lastCall.args[1]) = 3
    /\ lastCall.args[1][1].similarity_score = 800
    /\ lastCall.args[1][2].similarity_score = 800
    /\ lastCall.args[1][3].similarity_score = 900
    /\ Len(lastCall.ret) = 3
    /\ lastCall.ret[1].similarity_score = 900

\* ------------------------------------------------------- claims: selection
\* The winning number a selection call resolved: the one passed, else the
\* latest of the draw type.
ResolvedWinningNumberId(draw_type_id, winning_number_id) ==
    IF winning_number_id # NULL THEN winning_number_id
    ELSE LatestWinningNumber(winningNumbers, [id |-> draw_type_id]).id

\* The rows a selection call may return.
Qualifying(draw_type_id, winning_number_id, include_pending) ==
    {r \in Range(results) :
        /\ r.draw_type_id = draw_type_id
        /\ r.winning_number_id =
               ResolvedWinningNumberId(draw_type_id, winning_number_id)
        /\ r.similarity_score # NULL
        /\ include_pending \/ r.outcome # "pending"}

\* C14: select_top_prize_draw_results returns at most `limit` rows, the first
\* min(limit, n) of the n rows of the draw type and resolved winning number
\* that have a score, in the order score descending, evaluated_at ascending,
\* id ascending; no omitted qualifying row ranks before a returned one, and
\* with include_pending=False no pending row is returned.
C14_TopRowsOfDrawTypeAndNumber ==
    (lastCall.op = "select_top_prize_draw_results" /\ ~lastCall.raised) =>
        LET limit == lastCall.args[3]
            out == lastCall.ret
            q == Qualifying(lastCall.args[1], lastCall.args[2], lastCall.args[4])
        IN /\ Len(out) <= limit
           /\ Len(out) = (IF Cardinality(q) < limit THEN Cardinality(q) ELSE limit)
           /\ \A i \in 1..Len(out) : out[i] \in q
           /\ \A i, j \in 1..Len(out) : i < j => RanksBefore(out[i], out[j])
           /\ \A r \in q \ Range(out) : \A i \in 1..Len(out) : RanksBefore(out[i], r)
           /\ ~lastCall.args[4] => \A i \in 1..Len(out) : out[i].outcome # "pending"
           /\ (~lastCall.args[4] /\ \A r \in Range(results) : r.outcome = "pending")
                 => out = <<>>

\* A selection without pending rows leaves out a scored pending row of the
\* same draw type and winning number and returns the decided one.
C14_Witness ==
    /\ lastCall.op = "select_top_prize_draw_results"
    /\ ~lastCall.raised
    /\ ~lastCall.args[4]
    /\ Len(lastCall.ret) = 1
    /\ \E r \in Qualifying(lastCall.args[1], lastCall.args[2], TRUE) :
          r.outcome = "pending"

\* ----------------------------------------------------------- claims: race
\* Evaluators a and b raced: both looked the same (instance, draw type) up
\* and found no row, so both went for an INSERT.
Raced(a, b) ==
    /\ a # b
    /\ sessions[a].key = sessions[b].key
    /\ sessions[a].pc \in {"looked", "flushed", "committed", "failed"}
    /\ sessions[b].pc \in {"looked", "flushed", "committed", "failed"}
    /\ sessions[a].error # "ValueError"
    /\ sessions[b].error # "ValueError"
    /\ sessions[a].insert
    /\ sessions[b].insert

\* C15: when two evaluators race on one (instance, draw type), at most one
\* insert succeeds: the table never holds two rows for the key, and once one
\* evaluator has inserted, the other has not, and ends with an error raised
\* to its caller.
C15_RaceLeavesOneRowAndAnError ==
    /\ \A i, j \in 1..Len(results) :
          (/\ i # j
           /\ results[i].instance_id = results[j].instance_id)
              => results[i].draw_type_id # results[j].draw_type_id
    /\ \A a, b \in Evaluators :
          (Raced(a, b) /\ sessions[a].pc \in {"flushed", "committed"}) =>
              /\ sessions[b].pc \in {"looked", "failed"}
              /\ sessions[b].pc = "failed" =>
                    sessions[b].error \in {"IntegrityError", "OperationalError"}

\* Both evaluators found no row; one committed its insert and the other's
\* flush raised IntegrityError.
C15_Witness ==
    \E a, b \in Evaluators :
        /\ Raced(a, b)
        /\ sessions[a].pc = "committed"
        /\ sessions[b].pc = "failed"
        /\ sessions[b].error = "IntegrityError"
        /\ Len(results) = 1

\* ------------------------------------------------- claims: cell monotonicity
\* The operations of the grid-completion engine.
GridOps ==
    {"generate_for_user", "unlock_cells_for_ownership", "unlock_bingo_cells",
     "unlock_cells_for_nft", "ensure_bingo_cells"}

\* The cells that are unlocked before a step, as (card, idx) pairs.
UnlockedCells ==
    {p \in (1..Len(cards)) \X (0..8) : CellAt(cards[p[1]], p[2]).state = "unlocked"}

\* A step keeps every unlocked cell unlocked, and a step of a grid operation
\* also keeps its matched ownership and its unlock timestamp.
C16_MonotonicStep ==
    \A p \in UnlockedCells :
        /\ p[1] <= Len(cards')
        /\ CellAt(cards'[p[1]], p[2]).state = "unlocked"
        /\ lastCall'.op \in GridOps =>
              /\ CellAt(cards'[p[1]], p[2]).matched_ownership_id
                    = CellAt(cards[p[1]], p[2]).matched_ownership_id
              /\ CellAt(cards'[p[1]], p[2]).unlocked_at
                    = CellAt(cards[p[1]], p[2]).unlocked_at

\* C16: a cell only moves from locked to unlocked: no step relocks an unlocked
\* cell, and no grid operation (generate_for_user, unlock_cells_for_ownership,
\* unlock_bingo_cells, unlock_cells_for_nft, ensure_bingo_cells) replaces the
\* matched ownership or the unlock timestamp of an already unlocked cell.
C16_CellsOnlyUnlock == [][C16_MonotonicStep]_vars

\* ensure_bingo_cells has unlocked a cell of a card that already had a cell
\* unlocked at an earlier time, and that cell kept its timestamp.
C16_Witness ==
    /\ lastCall.op = "ensure_bingo_cells"
    /\ lastCall.ret > 0
    /\ \E c \in 1..Len(cards) : \E i, j \in 0..8 :
          /\ CellAt(cards[c], i).state = "unlocked"
          /\ CellAt(cards[c], j).state = "unlocked"
          /\ CellAt(cards[c], j).unlocked_at = now - 1
          /\ CellAt(cards[c], i).unlocked_at < CellAt(cards[c], j).unlocked_at

\* ------------------------------------------------------ claims: generation
\* The candidates of a generation call as the documentation states them: the
\* included definitions, or all of them when none is given, without the
\* centre and without the excluded ones.
RemainingCandidates(center, excluded, included) ==
    {d \in Defs : /\ included # {} => d \in included
                  /\ d # center
                  /\ d \notin excluded}

\* A generation call has failed exactly when fewer than 8 candidates remain.
C17_FailedIffShort ==
    lastCall.op = "generate_for_user" =>
        (lastCall.raised <=>
            Cardinality(RemainingCandidates(lastCall.args[2], lastCall.args[3],
                                            lastCall.args[4])) < 8)

\* A failed generation leaves the cards and their cells as they were.
C17_FailureCreatesNothing ==
    (lastCall'.op = "generate_for_user" /\ lastCall'.raised) => cards' = cards

\* C17: generate_for_user fails if and only if fewer than 8 candidates remain
\* after taking the included definitions (all definitions when none is
\* given) and removing the centre and the excluded ones; a failed call
\* creates no card and no cell.
C17_FailsIffFewerThanEight ==
    [](C17_FailedIffShort) /\ [][C17_FailureCreatesNothing]_vars

\* A call without included definitions failed: the centre and the excluded
\* definitions leave fewer than 8 of all definitions.
C17_Witness ==
    /\ lastCall.op = "generate_for_user"
    /\ lastCall.raised
    /\ lastCall.args[4] = {}
    /\ cards = <<>>

\* C18: on a freshly generated card a cell is unlocked, matched to the user's
\* ownership of its target and given an unlock timestamp exactly when the
\* user owns the target at generation; every other cell is locked with no
\* matched ownership and no timestamp.
C18_PreUnlockedIffOwned ==
    (lastCall.op = "generate_for_user" /\ ~lastCall.raised) =>
        LET card == cards[lastCall.ret]
        IN /\ Len(card.cells) = 9
           /\ \A k \in 1..Len(card.cells) :
                LET cell == card.cells[k]
                    mine == {o \in ownerships :
                                /\ o.user_id = lastCall.args[1]
                                /\ o.nft_id = cell.target_template_id}
                IN IF mine # {}
                   THEN /\ cell.state = "unlocked"
                        /\ \E o \in mine : cell.matched_ownership_id = o.id
                        /\ cell.unlocked_at # NULL
                   ELSE /\ cell.state = "locked"
                        /\ cell.matched_ownership_id = NULL
                        /\ cell.unlocked_at = NULL

\* A fresh card of user 1 with unlocked and locked cells, one of them locked
\* although the other user owns its target.
C18_Witness ==
    /\ lastCall.op = "generate_for_user"
    /\ ~lastCall.raised
    /\ lastCall.args[1] = 1
    /\ \E k \in 1..9 : cards[lastCall.ret].cells[k].state = "unlocked"
    /\ \E k \in 1..9 :
          /\ cards[lastCall.ret].cells[k].state = "locked"
          /\ OwnershipOf(ownerships, 2,
                 cards[lastCall.ret].cells[k].target_template_id).id # NULL

\* ----------------------------------------------------------- claims: batch
BatchOps == {"evaluate_batch", "run_prize_draw_batch"}

\* A batch call that returned gave one result per input instance, the i-th
\* being the row of the i-th instance.
C19_OneResultPerInstanceInOrder ==
    (lastCall.op \in BatchOps /\ ~lastCall.raised) =>
        /\ Len(lastCall.ret) = Len(lastCall.args[1])
        /\ \A i \in 1..Len(lastCall.ret) :
              /\ lastCall.ret[i] \in 1..Len(results)
              /\ results[lastCall.ret[i]].instance_id = lastCall.args[1][i]
              /\ results[lastCall.ret[i]].draw_type_id = lastCall.args[2]

\* A batch call with an empty list writes no result.
C19_EmptyBatchWritesNothing ==
    (lastCall'.op \in BatchOps /\ lastCall'.args[1] = <<>>) => results' = results

\* A batch call with an empty list returned the empty list.
C19_EmptyBatchReturnsEmpty ==
    (lastCall.op \in BatchOps /\ lastCall.args[1] = <<>>) =>
        (~lastCall.raised /\ lastCall.ret = <<>>)

\* The claim as stated: one result per input instance in input order, and an
\* empty list returned for an empty input whatever the draw type.
C19_BatchInOrderEmptyForAnyDrawType ==
    /\ [](C19_EmptyBatchReturnsEmpty)
    /\ [](C19_OneResultPerInstanceInOrder)
    /\ [][C19_EmptyBatchWritesNothing]_vars

\* An empty batch returned the empty list, unless it was run_prize_draw_batch
\* with an unpersisted draw type or without a winning number to resolve, which
\* raised.
C19_EmptyBatchReturnsEmptyOrRaises ==
    (lastCall.op \in BatchOps /\ lastCall.args[1] = <<>>) =>
        /\ ~lastCall.raised => lastCall.ret = <<>>
        /\ lastCall.raised <=>
              /\ lastCall.op = "run_prize_draw_batch"
              /\ \/ lastCall.args[2] = NULL
                 \/ /\ lastCall.args[3] = NULL
                    /\ \A k \in 1..Len(winningNumbers) :
                          winningNumbers[k].draw_type_id # lastCall.args[2]

\* C19: a batch evaluation that returns gives one result per input instance
\* in input order; for an empty input evaluate_batch returns the empty list
\* for any draw type, run_prize_draw_batch returns it for a persisted draw
\* type with a winning number passed or stored and raises otherwise; an empty
\* batch creates or modifies no result.
C19_BatchInOrderEmptyWhenResolvable ==
    /\ [](C19_EmptyBatchReturnsEmptyOrRaises)
    /\ [](C19_OneResultPerInstanceInOrder)
    /\ [][C19_EmptyBatchWritesNothing]_vars

\* run_prize_draw_batch returned the rows of two instances in input order,
\* the instance with the larger id first.
C19_Witness ==
    /\ lastCall.op = "run_prize_draw_batch"
    /\ ~lastCall.raised
    /\ Len(lastCall.ret) = 2
    /\ lastCall.args[1][1] > lastCall.args[1][2]
    /\ results[lastCall.ret[1]].instance_id = lastCall.args[1][1]

\* --------------------------------------------------- claims: preconditions
\* The origin of the instance a call was made with.
OriginOfInstance(instance_id) ==
    LET known == DrawInstances \cup {OriginlessInstance}
    IN (CHOOSE i \in known : i.id = instance_id).nft_origin

\* The origin is None, or nothing but whitespace.
NoOrigin(origin) ==
    \/ origin = NoneStr
    \/ \A k \in 1..Len(origin) : origin[k] \in Whitespace

\* A call of evaluate that lacks a precondition has raised.
C20_MissingPreconditionRaised ==
    (/\ lastCall.op = "evaluate"
     /\ \/ lastCall.args[1] = NULL
        \/ lastCall.args[2] = NULL
        \/ NoOrigin(OriginOfInstance(lastCall.args[1])))
        => lastCall.raised

\* A call of evaluate that raises leaves every result row as it was.
C20_RaisingCallWritesNothing ==
    (lastCall'.op = "evaluate" /\ lastCall'.raised) => results' = results

\* C20: evaluate raises, and creates or modifies no result row, whenever the
\* instance id is null, the draw type id is null, or the instance's origin is
\* null or blank after trimming.
C20_PreconditionsCheckedFirst ==
    [](C20_MissingPreconditionRaised) /\ [][C20_RaisingCallWritesNothing]_vars

\* evaluate was called for the instance with the blank origin, with a
\* persisted draw type and a winning number, while results existed: it raised.
C20_Witness ==
    /\ lastCall.op = "evaluate"
    /\ lastCall.raised
    /\ lastCall.args[1] = OwnershipId(2, 2)
    /\ lastCall.args[2] # NULL
    /\ lastCall.args[3] # NULL
    /\ results # <<>>

\* ------------------------------------------- claims: latest winning number
\* The id of the winning number submitted last for the draw type, NULL when
\* it has none: ids follow the order of submission.
MostRecentlySubmitted(draw_type_id) ==
    LET mine == {k \in 1..Len(winningNumbers) :
                    winningNumbers[k].draw_type_id = draw_type_id}
    IN IF mine = {} THEN NULL
       ELSE winningNumbers[CHOOSE k \in mine : \A j \in mine : j <= k].id

\* C21: without a winning number passed, run_prize_draw_batch writes and
\* select_top_prize_draw_results returns only results carrying the id of the
\* winning number submitted last for the draw type (never one of another
\* draw type), and both raise when the draw type has no winning number.
C21_LatestWinningNumberUsed ==
    /\ (lastCall.op = "run_prize_draw_batch" /\ lastCall.args[3] = NULL) =>
          /\ MostRecentlySubmitted(lastCall.args[2]) = NULL => lastCall.raised
          /\ ~lastCall.raised =>
                \A i \in 1..Len(lastCall.ret) :
                   results[lastCall.ret[i]].winning_number_id
                       = MostRecentlySubmitted(lastCall.args[2])
    /\ (lastCall.op = "select_top_prize_draw_results" /\ lastCall.args[2] = NULL) =>
          /\ MostRecentlySubmitted(lastCall.args[1]) = NULL => lastCall.raised
          /\ ~lastCall.raised =>
                \A i \in 1..Len(lastCall.ret) :
                   lastCall.ret[i].winning_number_id
                       = MostRecentlySubmitted(lastCall.args[1])

\* Two winning numbers of one draw type carry the same created_at; a batch
\* without a winning number wrote a result with the id of the second.
C21_Witness ==
    /\ lastCall.op = "run_prize_draw_batch"
    /\ ~lastCall.raised
    /\ lastCall.args[3] = NULL
    /\ Len(lastCall.ret) > 0
    /\ Len(winningNumbers) = 2
    /\ winningNumbers[1].draw_type_id = winningNumbers[2].draw_type_id
    /\ winningNumbers[1].created_at = winningNumbers[2].created_at
    /\ results[lastCall.ret[1]].winning_number_id = 2

\* ------------------------------------------------------ claims: draw number
\* The argument is a str.
IsString(x) == x \notin {NoneStr, NotAString}

\* The positions of the characters of s that are not whitespace.
Inked(s) == {k \in 1..Len(s) : s[k] \notin Whitespace}

\* s without its leading and trailing whitespace, stated by positions.
Trimmed(s) ==
    IF Inked(s) = {} THEN <<>>
    ELSE LET lo == CHOOSE k \in Inked(s) : \A j \in Inked(s) : k <= j
             hi == CHOOSE k \in Inked(s) : \A j \in Inked(s) : j <= k
         IN [k \in 1..(hi - lo + 1) |-> s[lo + k - 1]]

\* Two characters that are the same letter in either case.
SameLetter(c, d) ==
    \/ c = d
    \/ {c, d} = {"a", "A"}
    \/ {c, d} = {"b", "B"}

\* Two strings that differ only in letter case and in leading or trailing
\* whitespace.
SameUpToCaseAndPadding(x, y) ==
    /\ Len(Trimmed(x)) = Len(Trimmed(y))
    /\ \A k \in 1..Len(Trimmed(x)) : SameLetter(Trimmed(x)[k], Trimmed(y)[k])

\* C22: derive_draw_number returns the lower-cased trimmed origin; origins
\* that differ only in letter case or in leading and trailing whitespace get
\* the same draw number, equal inputs get equal outputs, and the function
\* applied to its own output returns it unchanged.
C22_DeriveIsLowerOfTrimmed ==
    (lastCall.op = "derive_draw_number" /\ IsString(lastCall.args[1])
        /\ IsString(lastCall.args[2])) =>
        LET x == lastCall.args[1]
            y == lastCall.args[2]
            first == lastCall.ret[1]
            second == lastCall.ret[2]
        IN /\ first.ok =>
                 /\ Len(first.value) = Len(Trimmed(x))
                 /\ \A k \in 1..Len(first.value) :
                       /\ SameLetter(first.value[k], Trimmed(x)[k])
                       /\ first.value[k] \notin {"A", "B"}
           /\ SameUpToCaseAndPadding(x, y) => first = second
           /\ x = y => first = second
           /\ first.ok => lastCall.ret[3] = first

\* " A" and "a " were derived: both give "a", and so does "a" again.
C22_Witness ==
    /\ lastCall.op = "derive_draw_number"
    /\ lastCall.args[1] = <<" ", "A">>
    /\ lastCall.args[2] = <<"a", " ">>
    /\ lastCall.ret[1].value = <<"a">>
    /\ lastCall.ret[2].value = <<"a">>
    /\ lastCall.ret[3].value = <<"a">>

\* A call of derive_draw_number fails with ValueError on an empty or blank
\* string.
C23_BlankRaisesValueError ==
    (lastCall.op = "derive_draw_number" /\ IsString(lastCall.args[1])
        /\ Inked(lastCall.args[1]) = {}) =>
        (~lastCall.ret[1].ok /\ lastCall.ret[1].error = "ValueError")

\* The claim as stated: ValueError for every empty or blank string, TypeError
\* for every input that is not a string.
C23_NonStringRaisesTypeError ==
    /\ C23_BlankRaisesValueError
    /\ (lastCall.op = "derive_draw_number" /\ ~IsString(lastCall.args[1])) =>
          (~lastCall.ret[1].ok /\ lastCall.ret[1].error = "TypeError")

\* C23: derive_draw_number fails with ValueError for every string that is
\* empty or only whitespace and for None, and with TypeError for every other
\* input that is not a string.
C23_NoneRaisesValueError ==
    /\ C23_BlankRaisesValueError
    /\ (lastCall.op = "derive_draw_number" /\ ~IsString(lastCall.args[1])) =>
          /\ ~lastCall.ret[1].ok
          /\ lastCall.ret[1].error =
                (IF lastCall.args[1] = NoneStr THEN "ValueError" ELSE "TypeError")

\* derive_draw_number was called with None and with a value that is not a
\* string: ValueError for the first, TypeError for the second.
C23_Witness ==
    /\ lastCall.op = "derive_draw_number"
    /\ lastCall.args[1] = NoneStr
    /\ lastCall.args[2] = NotAString
    /\ lastCall.ret[1].error = "ValueError"
    /\ lastCall.ret[2].error = "TypeError"

\* --------------------------------------------------- claims: algorithm registry
\* A registration of key made before call n that went through.
RegisteredBefore(key, n) ==
    \E m \in 1..(n - 1) :
        /\ registry.calls[m].algorithm.key = key
        /\ ~registry.calls[m].raised

\* The algorithm of the last registration of key that went through.
LastRegistered(key) ==
    LET n == CHOOSE m \in 1..Len(registry.calls) :
                 /\ registry.calls[m].algorithm.key = key
                 /\ ~registry.calls[m].raised
                 /\ \A l \in (m + 1)..Len(registry.calls) :
                       \/ registry.calls[l].algorithm.key # key
                       \/ registry.calls[l].raised
    IN registry.calls[n].algorithm

\* C24: a register call raises exactly when its key is already registered and
\* replace is False, and then the registry is left as it was; every other
\* call stores its algorithm under its key; so the registry holds, for each
\* key, the algorithm of the last registration that went through, get returns
\* it, and get raises KeyError for a key that was never registered.
C24_RegistryKeepsLastRegistration ==
    /\ \A n \in 1..Len(registry.calls) :
          registry.calls[n].raised <=>
              /\ ~registry.calls[n].replace
              /\ RegisteredBefore(registry.calls[n].algorithm.key, n)
    /\ DOMAIN registry.algorithms =
          {k \in RegistryKeys : RegisteredBefore(k, Len(registry.calls) + 1)}
    /\ \A k \in DOMAIN registry.algorithms :
          registry.algorithms[k] = LastRegistered(k)
    /\ lastCall.op = "register" =>
          /\ lastCall.raised = registry.calls[Len(registry.calls)].raised
          /\ lastCall.raised <=> lastCall.ret.error = "ValueError"
    /\ lastCall.op = "get" =>
          IF RegisteredBefore(lastCall.args[1], Len(registry.calls) + 1)
          THEN /\ ~lastCall.raised
               /\ lastCall.ret.value = LastRegistered(lastCall.args[1])
          ELSE /\ lastCall.raised
               /\ lastCall.ret.error = "KeyError"

\* A duplicate was refused, the key then replaced, and get returns the
\* replacement.
C24_Witness ==
    /\ Len(registry.calls) = 3
    /\ ~registry.calls[1].raised
    /\ registry.calls[2].raised
    /\ registry.calls[3].replace
    /\ registry.calls[1].algorithm.key = "k1"
    /\ registry.calls[2].algorithm.key = "k1"
    /\ registry.calls[3].algorithm = [key |-> "k1", scorer |-> "s2"]
    /\ registry.calls[1].algorithm.scorer = "s1"
    /\ lastCall.op = "get"
    /\ lastCall.args = <<"k1">>
    /\ lastCall.ret.value.scorer = "s2"

\* ------------------------------------------------------ claims: ensure cards
\* The definition the card is centred on: the target of its cell idx 4.
CenteredOn(card, d) ==
    \E k \in 1..Len(card.cells) :
        card.cells[k].idx = 4 /\ card.cells[k].target_template_id = d

Holds(u, d) == \E o \in ownerships : o.user_id = u /\ o.nft_id = d

\* After ensure_bingo_cards every trigger-flagged definition the user owns has
\* a card of that user centred on it.
C25_EveryOwnedTriggerHasCard ==
    lastCall.op = "ensure_bingo_cards" =>
        \A d \in TriggerDefs :
            Holds(lastCall.args[1], d) =>
                \E c \in 1..Len(cards) :
                    cards[c].user_id = lastCall.args[1] /\ CenteredOn(cards[c], d)

\* A call of ensure_bingo_cards keeps the cards there are, adds as many cards
\* as it returns, each of the user and centred on a trigger-flagged definition
\* the user owns that had no card, no two on one definition; a call right
\* after another of the same user adds nothing and returns 0.
C25_EnsureStep ==
    lastCall'.op = "ensure_bingo_cards" =>
        LET u == lastCall'.args[1]
            new == (Len(cards) + 1)..Len(cards')
        IN /\ Len(cards') = Len(cards) + lastCall'.ret
           /\ SubSeq(cards', 1, Len(cards)) = cards
           /\ \A c \in new :
                 /\ cards'[c].user_id = u
                 /\ \E d \in TriggerDefs :
                       /\ Holds(u, d)
                       /\ CenteredOn(cards'[c], d)
                       /\ ~\E b \in 1..Len(cards) :
                             cards[b].user_id = u /\ CenteredOn(cards[b], d)
                       /\ ~\E b \in new \ {c} : CenteredOn(cards'[b], d)
           /\ lastCall'.again => (lastCall'.ret = 0 /\ cards' = cards)

\* C25: after ensure_bingo_cards every trigger-flagged definition the user
\* owns has a card of the user centred on it (cell idx 4), the count returned
\* is the number of cards the call created, no card is created for a centre
\* that has one, and a second call with the same ownerships creates nothing
\* and returns 0.
C25_EnsureCardsOncePerTrigger ==
    [](C25_EveryOwnedTriggerHasCard) /\ [][C25_EnsureStep]_vars

\* A second call in a row, after two cards were ensured for the user.
C25_Witness ==
    /\ lastCall.op = "ensure_bingo_cards"
    /\ lastCall.again
    /\ lastCall.ret = 0
    /\ Cardinality({c \in 1..Len(cards) : cards[c].user_id = lastCall.args[1]}) = 2
    /\ \A d \in TriggerDefs : Holds(lastCall.args[1], d)

\* ------------------------------------------------------ claims: ensure cells
\* After ensure_bingo_cells no active card of the user has a locked cell whose
\* target the user owns.
C26_NoLockedOwnedCell ==
    lastCall.op = "ensure_bingo_cells" =>
        \A c \in 1..Len(cards) :
            (cards[c].user_id = lastCall.args[1] /\ cards[c].state = "active") =>
                \A k \in 1..Len(cards[c].cells) :
                    cards[c].cells[k].state = "locked" =>
                        ~Holds(lastCall.args[1],
                               cards[c].cells[k].target_template_id)

\* A call of ensure_bingo_cells returns the number of cells it turned from
\* locked to unlocked, marks completed every card it changed that has all its
\* cells unlocked, and leaves alone the cards that are not active and the
\* cards of other users.
C26_EnsureCellsStep ==
    lastCall'.op = "ensure_bingo_cells" =>
        /\ Len(cards') = Len(cards)
        /\ lastCall'.ret =
              Cardinality({ck \in (1..Len(cards)) \X (1..9) :
                  /\ cards[ck[1]].cells[ck[2]].state = "locked"
                  /\ cards'[ck[1]].cells[ck[2]].state = "unlocked"})
        /\ \A c \in 1..Len(cards) :
              /\ (cards[c].state # "active" \/ cards[c].user_id # lastCall'.args[1])
                    => cards'[c] = cards[c]
              /\ (/\ cards'[c] # cards[c]
                  /\ \A k \in 1..9 : cards'[c].cells[k].state = "unlocked")
                    => /\ cards'[c].state = "completed"
                       /\ cards'[c].completed_at # NULL

CompletedLinePlaces(o) ==
    {p \in (1..Len(cards)) \X (1..Len(WinningLines)) \X (1..3) :
        /\ \A k \in 1..3 :
              CellAt(cards[p[1]], WinningLines[p[2]][k]).state = "unlocked"
        /\ CellAt(cards[p[1]], WinningLines[p[2]][p[3]]).matched_ownership_id = o.id}

OnCompletedLine == {o \in ownerships : CompletedLinePlaces(o) # {}}

\* Where the ownership is seen first going through the cards, their completed
\* lines and the cells of each line.
FirstSeen(o) ==
    CHOOSE n \in {p[1] * 100 + p[2] * 10 + p[3] : p \in CompletedLinePlaces(o)} :
        \A p \in CompletedLinePlaces(o) : n <= p[1] * 100 + p[2] * 10 + p[3]

\* The rows a step created or changed.
Written(r) == r > Len(results) \/ results'[r] # results[r]

\* C27: a run_bingo_prize_draw that returns has evaluated exactly the
\* ownerships matched to a cell on a completed line of some card: each has one
\* result of the draw type, evaluated by this call, rows are created in
\* first-seen order, and no result is written for any other ownership.
C27_BingoDrawStep ==
    (lastCall'.op = "run_bingo_prize_draw" /\ ~lastCall'.raised) =>
        /\ \A o \in OnCompletedLine :
              \E r \in 1..Len(results') :
                  /\ RowsOf(results', o.id, lastCall'.args[1]) = {r}
                  /\ results'[r].evaluated_at = now
        /\ \A r \in 1..Len(results') :
              Written(r) =>
                  /\ results'[r].draw_type_id = lastCall'.args[1]
                  /\ \E o \in OnCompletedLine : results'[r].instance_id = o.id
        /\ \A q, r \in (Len(results) + 1)..Len(results') :
              \A a, b \in OnCompletedLine :
                  (/\ q < r
                   /\ results'[q].instance_id = a.id
                   /\ results'[r].instance_id = b.id)
                  => FirstSeen(a) < FirstSeen(b)

C27_BingoDrawEvaluatesCompletedLines == [][C27_BingoDrawStep]_vars

\* ------------------------------------------------- claims: batch atomicity
\* C28: a run_prize_draw_batch that raises leaves the stored results as they
\* were before the call: no row it created or modified stays behind, wherever
\* in the batch the offending instance is.
C28_RaisingBatchStep ==
    (lastCall'.op = "run_prize_draw_batch" /\ lastCall'.raised) =>
        results' = results

C28_RaisingBatchWritesNothing == [][C28_RaisingBatchStep]_vars

\* ------------------------------------------------- claims: matched ownership
\* The stored ownerships a cell's matched_ownership_id points to.
MatchedOwnerships(cell) ==
    {o \in ownerships : o.id = cell.matched_ownership_id}

C29_MatchedOwnershipOfTarget ==
    \A c \in 1..Len(cards) : \A k \in 1..Len(cards[c].cells) :
        cards[c].cells[k].state = "unlocked" =>
            \A o \in MatchedOwnerships(cards[c].cells[k]) :
                o.nft_id = cards[c].cells[k].target_template_id

UnlockWithOwnershipOps == {"unlock_cells_for_ownership", "unlock_bingo_cells"}

\* An ownership attached to a cell by a step is held by the user who owns the
\* card, unless the step is unlock_cells_for_ownership or unlock_bingo_cells
\* called with that ownership, which is then another user's.
C29_AttachStep ==
    \A c \in 1..Len(cards') : \A idx \in 0..8 :
        LET cell == CellAt(cards'[c], idx)
        IN (/\ cell.matched_ownership_id # NULL
            /\ \/ c > Len(cards)
               \/ CellAt(cards[c], idx).matched_ownership_id
                     # cell.matched_ownership_id)
           => \A o \in MatchedOwnerships(cell) :
                 \/ o.user_id = cards'[c].user_id
                 \/ /\ lastCall'.op \in UnlockWithOwnershipOps
                    /\ lastCall'.args[2] = o.id

C30_ResultsConsistent ==
    /\ \A r \in 1..Len(results) :
          /\ results[r].outcome \in {"win", "lose"} =>
                /\ results[r].winning_number_id # NULL
                /\ results[r].similarity_score # NULL
                /\ results[r].threshold_used # NULL
          /\ results[r].winning_number_id = NULL
                <=> results[r].similarity_score = NULL
    /\ (lastCall.op = "evaluate" /\ ~lastCall.raised /\ lastCall.args[3] = NULL) =>
          /\ results[lastCall.ret].outcome = "pending"
          /\ results[lastCall.ret].similarity_score = NULL
          /\ results[lastCall.ret].winning_number_id = NULL

====
